---- MODULE Spec2Model ----
(***************************************************************************)
(* CascLib, src/CascOpenStorage.cpp: the storage facade.                   *)
(*                                                                         *)
(*   Spec     one call of CascOpenStorageEx: parameter parsing, creation   *)
(*            of the TCascStorage object, the phases of LoadCascStorage    *)
(*            (with the ROOT dispatcher of LoadBuildManifest), and the     *)
(*            final release / output of the handle.                        *)
(*   SpecRef  an opened storage shared by threads that call AddRef and     *)
(*            Release (CascCloseStorage).                                  *)
(*                                                                         *)
(* Functions that live outside CascOpenStorage.cpp (LoadMainFile, the      *)
(* root handler builders, LoadInternalFileToMemory, ...) are modelled by   *)
(* their interface: a nondeterministic result drawn from a small set.      *)
(***************************************************************************)
EXTENDS Integers, Sequences, FiniteSets, TLC

\* ------------------------------------------------------------------------
\* Error codes (symbolic; only equality is ever used by the code)

ERROR_SUCCESS           == "ERROR_SUCCESS"
ERROR_NOT_ENOUGH_MEMORY == "ERROR_NOT_ENOUGH_MEMORY"
ERROR_FILE_NOT_FOUND    == "ERROR_FILE_NOT_FOUND"
ERROR_BAD_FORMAT        == "ERROR_BAD_FORMAT"
ERROR_FILE_CORRUPT      == "ERROR_FILE_CORRUPT"
ERROR_INVALID_PARAMETER == "ERROR_INVALID_PARAMETER"
ERROR_CANCELLED         == "ERROR_CANCELLED"
ERROR_REPARSE_ROOT      == "ERROR_REPARSE_ROOT"
ERROR_INSUFFICIENT_BUFFER == "ERROR_INSUFFICIENT_BUFFER"
ERROR_NOT_SUPPORTED     == "ERROR_NOT_SUPPORTED"

\* Feature bits of TCascStorage::dwFeatures
CASC_FEATURE_DATA_ARCHIVES  == "DATA_ARCHIVES"
CASC_FEATURE_DATA_FILES     == "DATA_FILES"
CASC_FEATURE_ONLINE         == "ONLINE"
CASC_FEATURE_FORCE_DOWNLOAD == "FORCE_DOWNLOAD"

\* Build file types (CBLD_TYPE)
CascBuildNone == "CascBuildNone"
CascBuildInfo == "CascBuildInfo"
CascBuildDb   == "CascBuildDb"
CascVersions  == "CascVersions"

\* ------------------------------------------------------------------------
\* C strings.  A buffer is a sequence of characters; NUL inside a buffer
\* ends the string that starts before it.  A pointer into a buffer is a
\* 1-based index; Len(buf)+1 is the position of the final terminator.

NUL == "\\0"
CASC_PARAM_SEPARATOR == "*"

NullPtr == [kind |-> "null"]
CallerStr(s) == [kind |-> "caller", s |-> s]
CopyPtr(off) == [kind |-> "copy", off |-> off]

\* Character at position i of a buffer (NUL at and past the end)
CharAt(buf, i) == IF i >= 1 /\ i <= Len(buf) THEN buf[i] ELSE NUL

\* Position of the terminator of the string that starts at p
RECURSIVE StrEnd(_, _)
StrEnd(buf, p) == IF CharAt(buf, p) = NUL THEN p ELSE StrEnd(buf, p + 1)

\* The C string that starts at p
CStr(buf, p) == SubSeq(buf, p, StrEnd(buf, p) - 1)

\* _tcschr(p, '*'): position of the first separator of the string at p, 0 if none
RECURSIVE StrChrSep(_, _)
StrChrSep(buf, p) ==
    IF CharAt(buf, p) = NUL THEN 0
    ELSE IF buf[p] = CASC_PARAM_SEPARATOR THEN p
    ELSE StrChrSep(buf, p + 1)

\* IsUrl(szString): "://", '.' or '/' before the next separator or the end
RECURSIVE IsUrl(_, _)
IsUrl(buf, p) ==
    IF CharAt(buf, p) = NUL \/ CharAt(buf, p) = CASC_PARAM_SEPARATOR THEN FALSE
    ELSE IF CharAt(buf, p) = ":" /\ CharAt(buf, p + 1) = "/" /\ CharAt(buf, p + 2) = "/" THEN TRUE
    ELSE IF buf[p] = "." \/ buf[p] = "/" THEN TRUE
    ELSE IsUrl(buf, p + 1)

\* GetNextParam that takes every next field, URL or not
GetNextParamMutant(buf, p, bMustBeUrl) ==
    IF p = 0 THEN [buf |-> buf, next |-> 0]
    ELSE LET sep == StrChrSep(buf, p) IN
         IF sep = 0 THEN [buf |-> buf, next |-> 0]
         ELSE [buf |-> [buf EXCEPT ![sep] = NUL], next |-> sep + 1]

\* GetNextParam(szParamsPtr, bMustBeUrl): p = 0 is the NULL pointer.
\* Returns the buffer (with the separator overwritten by NUL) and the
\* position after the separator, 0 for NULL.
GetNextParam(buf, p, bMustBeUrl) ==
    IF p = 0 THEN [buf |-> buf, next |-> 0]
    ELSE LET sep == StrChrSep(buf, p) IN
         IF sep = 0 THEN [buf |-> buf, next |-> 0]
         ELSE IF bMustBeUrl /\ ~IsUrl(buf, sep + 1) THEN [buf |-> buf, next |-> 0]
         ELSE [buf |-> [buf EXCEPT ![sep] = NUL], next |-> sep + 1]

\* "ptr && ptr[0]" for a field of CASC_OPEN_STORAGE_ARGS
NonEmptyArgMutant(ptr, buf) == ptr.kind # "null"
NonEmptyArg(ptr, buf) ==
    CASE ptr.kind = "null"   -> FALSE
      [] ptr.kind = "caller" -> ptr.s # <<>>
      [] ptr.kind = "copy"   -> CharAt(buf, ptr.off) # NUL

\* The string a field of the args points at (<<>> for NULL)
ArgStr(ptr, buf) ==
    CASE ptr.kind = "null"   -> <<>>
      [] ptr.kind = "caller" -> ptr.s
      [] ptr.kind = "copy"   -> CStr(buf, ptr.off)

\* ParseOpenParams(szParams, pArgs): result code, the tampered buffer and
\* the args as the function leaves them.
ParseOpenParams(buf0, args0) ==
    IF NonEmptyArg(args0.szLocalPath, buf0)
    THEN [err |-> ERROR_INVALID_PARAMETER, buf |-> buf0, args |-> args0]
    ELSE
      LET a1 == [args0 EXCEPT !.szLocalPath = CopyPtr(1)]
          g1 == GetNextParam(buf0, 1, TRUE)
      IN
      IF g1.next # 0 /\ NonEmptyArg(a1.szCdnHostUrl, g1.buf)
      THEN [err |-> ERROR_INVALID_PARAMETER, buf |-> g1.buf, args |-> a1]
      ELSE
        LET a2 == IF g1.next # 0 THEN [a1 EXCEPT !.szCdnHostUrl = CopyPtr(g1.next)] ELSE a1
            p2 == IF g1.next # 0 THEN g1.next ELSE 1
            g2 == GetNextParam(g1.buf, p2, FALSE)
        IN
        IF g2.next # 0 /\ NonEmptyArg(a2.szCodeName, g2.buf)
        THEN [err |-> ERROR_INVALID_PARAMETER, buf |-> g2.buf, args |-> a2]
        ELSE
          LET a3 == IF g2.next # 0 THEN [a2 EXCEPT !.szCodeName = CopyPtr(g2.next)] ELSE a2
              g3 == GetNextParam(g2.buf, g2.next, FALSE)
          IN
          IF g3.next # 0 /\ NonEmptyArg(a3.szRegion, g3.buf)
          THEN [err |-> ERROR_INVALID_PARAMETER, buf |-> g3.buf, args |-> a3]
          ELSE
            LET a4 == IF g3.next # 0 THEN [a3 EXCEPT !.szRegion = CopyPtr(g3.next)] ELSE a3
            IN [err |-> ERROR_SUCCESS, buf |-> g3.buf, args |-> a4]

\* ------------------------------------------------------------------------
\* The TCascStorage object and the heap of root handlers

\* Value of the storage object before "new TCascStorage()"
NoStorage ==
    [state |-> "none", dwRefCount |-> 0, pRootHandler |-> 0, dwFeatures |-> {},
     BuildFileType |-> CascBuildNone, DataFiles |-> {}, IndexFiles |-> FALSE,
     pArgs |-> FALSE, CKeyItems |-> 0, deletes |-> 0]

\* TCascStorage::TCascStorage()
NewStorage ==
    [NoStorage EXCEPT !.state = "alive", !.dwRefCount = 1]

\* "delete pHandler" on the heap of root handlers (h = 0 is NULL: no effect)
DeleteHandler(hp, h) ==
    IF h = 0 THEN hp
    ELSE [hp EXCEPT ![h].alive = FALSE, ![h].deletes = @ + 1]

\* TCascStorage::~TCascStorage()
Destructor(st, hp) ==
    [st |-> [st EXCEPT !.state = "deleted", !.pRootHandler = 0, !.DataFiles = {},
                       !.IndexFiles = FALSE, !.CKeyItems = 0, !.deletes = @ + 1],
     hp |-> DeleteHandler(hp, st.pRootHandler)]

\* CascInterlockedIncrement / CascInterlockedDecrement on a DWORD: one
\* indivisible read-modify-write that returns the new value.  The count of
\* the model stays between 0 and a handful of references, far from the
\* ends of the DWORD range, and every decrement is applied to a count >= 1.
CascInterlockedIncrement(v) == v + 1
CascInterlockedDecrement(v) == v - 1

\* The test of TCascStorage::Release on the decremented count
ReleaseDestroysMutant(n) == n <= 1
ReleaseDestroys(n) == n = 0

\* TCascStorage::AddRef()
AddRef(st) == [st EXCEPT !.dwRefCount = CascInterlockedIncrement(st.dwRefCount)]

\* sockets_set_caching on the socket cache, which counts the storages that
\* asked for caching: true adds a reference, false gives one up
sockets_set_caching(n, bAddRef) ==
    IF bAddRef THEN n + 1 ELSE IF n > 0 THEN n - 1 ELSE 0

\* The socket cache after "Release all references in the socket cache"
ReleaseSocketsMutant(features, sock) == sockets_set_caching(sock, FALSE)
ReleaseSockets(features, sock) ==
    IF CASC_FEATURE_ONLINE \in features THEN sockets_set_caching(sock, FALSE) ELSE sock

\* TCascStorage::Release() after the decrement has given n: the storage, the
\* heap and the socket cache afterwards; ret is "NULL" or "this"
ReleaseTest(n, st, hp, sock) ==
    IF ReleaseDestroys(n)
    THEN LET d == Destructor(st, hp)
         IN [st |-> d.st, hp |-> d.hp,
             sock |-> ReleaseSockets(st.dwFeatures, sock),
             ret |-> "NULL"]
    ELSE [st |-> st, hp |-> hp, sock |-> sock, ret |-> "this"]

\* TCascStorage::Release() run by one thread without interruption
Release(st, hp, sock) ==
    LET n == CascInterlockedDecrement(st.dwRefCount)
    IN ReleaseTest(n, [st EXCEPT !.dwRefCount = n], hp, sock)

\* ------------------------------------------------------------------------
\* State

VARIABLES
    pc,               \* position inside CascOpenStorageEx / LoadCascStorage
    szParams,         \* the caller's parameter string
    pArgs,            \* the CASC_OPEN_STORAGE_ARGS in use (the caller's struct)
    bOnlineStorage,   \* argument of CascOpenStorageEx
    szParamsCopy,     \* the temporary copy of szParams
    dwErrCode,        \* local dwErrCode of the function being executed
    lastError,        \* thread-local last error (SetCascError / GetCascError)
    phStorage,        \* the caller's output cell
    retval,           \* what CascOpenStorageEx returned
    hs,               \* local pointer hs: "NULL" or "hs"
    storage,          \* the TCascStorage object
    heap,             \* root handler instances ever created
    socketsCaching,   \* storages holding a reference to the socket cache
    trace,            \* phases executed so far, with the code each returned
    callbacks,        \* progress callback invocations, with the answer given
    BuildFile,        \* CASC_BUILD_FILE found by CascOpenStorageEx, features passed on
    root,             \* locals of LoadBuildManifest
    ub,               \* undefined behaviour executed so far
    owned,            \* SpecRef: each thread's references and position in Release
    peer,             \* SpecTwo: the storage object of a second open
    info,             \* SpecInfo: the storage fields CascGetStorageInfo reads
    query,            \* SpecInfo: the caller's side of the last CascGetStorageInfo call
    parts,            \* SpecParse: the fields a legacy parameter string was joined from
    central           \* SpecTable, SpecDownload: CKeyArray, CKeyMap and EKeyMap of the
                      \* storage, with the manifest being loaded into them

vars == <<pc, szParams, pArgs, bOnlineStorage, szParamsCopy, dwErrCode, lastError,
          phStorage, retval, hs, storage, heap, socketsCaching, trace, callbacks,
          BuildFile, root, ub, owned, peer, info, query, parts, central>>

\* ------------------------------------------------------------------------
\* Bounds and inputs

\* Passes of the ROOT dispatcher explored before the model stops following the loop
MaxRootLoads == 3

\* Threads that share one open storage, and references they hold together at most
NumThreads == 3
MaxRefs == 3

\* Largest cbStorageInfo a caller of CascGetStorageInfo passes
MaxBuffer == 56

\* Length of a ROOT file that holds just an MD5 string
MD5_STRING_SIZE == 32

S(str) == [null |-> FALSE, s |-> str]
NoParams == [null |-> TRUE, s |-> <<>>]

EmptyArgs ==
    [szLocalPath |-> NullPtr, szCdnHostUrl |-> NullPtr, szCodeName |-> NullPtr,
     szRegion |-> NullPtr, dwFlags |-> {}]

LocalPathArgs == [EmptyArgs EXCEPT !.szLocalPath = CallerStr(<<"a">>)]

\* Args of a caller who gives the region in the struct
RegionArgs == [EmptyArgs EXCEPT !.szRegion = CallerStr(<<"r">>)]

\* One call of CascOpenStorageEx: parameter string, args struct, online flag,
\* the thread's last error before the call and the caller's output cell
\* ("Stale": a cell holding an old value, "NoCell": phStorage == NULL)
Call(params, args, online, le, cell) ==
    [szParams |-> params, pArgs |-> args, bOnlineStorage |-> online,
     lastError |-> le, phStorage |-> cell]

OpenInputs ==
    { Call(NoParams, EmptyArgs, FALSE, ERROR_SUCCESS, "Stale"),
      Call(S(<<>>), EmptyArgs, FALSE, ERROR_SUCCESS, "Stale"),
      Call(S(<<"a">>), LocalPathArgs, FALSE, ERROR_SUCCESS, "Stale"),
      Call(NoParams, LocalPathArgs, FALSE, ERROR_SUCCESS, "Stale"),
      Call(NoParams, LocalPathArgs, FALSE, ERROR_FILE_NOT_FOUND, "Stale"),
      Call(S(<<"a", "*", "w">>), EmptyArgs, TRUE, ERROR_SUCCESS, "Stale"),
      Call(S(<<"a", "*", ".", "*", "w", "*", "r">>), EmptyArgs, TRUE, ERROR_SUCCESS, "NoCell"),
      Call(S(<<"a", "*", "w">>), RegionArgs, TRUE, ERROR_SUCCESS, "Stale"),
      Call(S(<<"a", "*", "w", "*", "r">>), RegionArgs, TRUE, ERROR_SUCCESS, "Stale") }

\* Codes returned by the loaders that live in other files
ExtResults == {ERROR_SUCCESS, ERROR_FILE_NOT_FOUND}

\* Outcomes of LoadInternalFileToMemory: its return code and the blob length
RootInit == [pCKeyEntry |-> "RootFile", pOldRootHandler |-> 0, loadKeys |-> <<>>, hasVfsRoot |-> FALSE]

NoBuildFile == [BuildFileType |-> CascBuildNone, dwFeatures |-> {}]

\* Value of a variable in the specifications that do not use it
None == [state |-> "none"]

\* The variables named in names are not used by the specification
Unused(names) ==
    /\ \A i \in DOMAIN names :
          CASE names[i] = "peer"    -> peer = None
            [] names[i] = "info"    -> info = None
            [] names[i] = "query"   -> query = None
            [] names[i] = "parts"   -> parts = None
            [] names[i] = "central" -> central = None

\* ------------------------------------------------------------------------
\* Helpers shared by the phases

Event(phase, code) == [phase |-> phase, code |-> code]

\* InvokeProgressCallback(hs, szMessage, ...): the answer is the caller's
Callback(msg, cancel) == [msg |-> msg, cancel |-> cancel]

\* "if(dwErrCode == ERROR_SUCCESS)" in front of every phase of LoadCascStorage
ProceedMutant(err) == TRUE
Proceed(err) == err = ERROR_SUCCESS

\* LoadInternalFileToMemory(hs, pCKeyEntry, Blob): a failure leaves its code
\* in the thread's last error, a success leaves the last error alone
LoadInternalFileToMemory(out, le) ==
    [err |-> out.err, cbData |-> out.cbData,
     lastError |-> IF out.err # ERROR_SUCCESS THEN out.err ELSE le]

\* ------------------------------------------------------------------------
\* CascOpenStorageEx, before LoadCascStorage

Init ==
    /\ pc = "Entry"
    /\ \E c \in OpenInputs :
         /\ szParams = c.szParams
         /\ pArgs = c.pArgs
         /\ bOnlineStorage = c.bOnlineStorage
         /\ lastError = c.lastError
         /\ phStorage = c.phStorage
    /\ szParamsCopy = [state |-> "none", buf |-> <<>>]
    /\ dwErrCode = ERROR_SUCCESS
    /\ retval = "none"
    /\ hs = "NULL"
    /\ storage = NoStorage
    /\ heap = <<>>
    /\ socketsCaching = 0
    /\ trace = <<>>
    /\ callbacks = <<>>
    /\ BuildFile = NoBuildFile
    /\ root = RootInit
    /\ ub = {}
    /\ owned = <<>>
    /\ Unused(<<"peer", "info", "query", "parts", "central">>)

\* The minimum arguments check of CascOpenStorageEx
VerifyMinimumArgs(err, args, buf) ==
    IF err = ERROR_SUCCESS /\ ~NonEmptyArg(args.szLocalPath, buf)
    THEN ERROR_INVALID_PARAMETER
    ELSE err

\* CascNewStr(szParams) fails: the function returns at once
OpenNoMemory ==
    /\ pc = "Entry"
    /\ ~szParams.null
    /\ lastError' = ERROR_NOT_ENOUGH_MEMORY
    /\ retval' = "false"
    /\ pc' = "Returned"
    /\ UNCHANGED <<szParams, pArgs, bOnlineStorage, szParamsCopy, dwErrCode, phStorage,
                   hs, storage, heap, socketsCaching, trace, callbacks, BuildFile, root,
                   ub, owned, peer, info, query, parts, central>>

\* Copy and parse the parameter string, verify the minimum arguments
OpenParse ==
    /\ pc = "Entry"
    /\ IF szParams.null
       THEN /\ dwErrCode' = VerifyMinimumArgs(ERROR_SUCCESS, pArgs, <<>>)
            /\ UNCHANGED <<pArgs, szParamsCopy>>
       ELSE LET r == ParseOpenParams(szParams.s, pArgs) IN
            /\ pArgs' = r.args
            /\ szParamsCopy' = [state |-> "live", buf |-> r.buf]
            /\ dwErrCode' = VerifyMinimumArgs(r.err, r.args, r.buf)
    /\ pc' = "Create"
    /\ UNCHANGED <<szParams, bOnlineStorage, lastError, phStorage, retval, hs, storage,
                   heap, socketsCaching, trace, callbacks, BuildFile, root, ub, owned,
                   peer, info, query, parts, central>>

\* CheckCascBuildFileExact, CheckCascBuildFileDirs, CheckOnlineStorage:
\* the build file found (err = ERROR_SUCCESS) or the code of the last check
BuildFileOutcomes(args, buf, online) ==
    { [err |-> ERROR_SUCCESS, BuildFileType |-> t,
       dwFeatures |-> {CASC_FEATURE_DATA_ARCHIVES, CASC_FEATURE_DATA_FILES}]
         : t \in {CascBuildInfo, CascVersions} }
    \cup
    (IF online /\ NonEmptyArg(args.szCodeName, buf)
     THEN { [err |-> ERROR_SUCCESS, BuildFileType |-> CascVersions,
             dwFeatures |-> {CASC_FEATURE_DATA_FILES}] }
     ELSE { [err |-> IF online THEN ERROR_INVALID_PARAMETER ELSE ERROR_FILE_NOT_FOUND,
             BuildFileType |-> CascBuildNone, dwFeatures |-> {}] })

\* Create the storage object and look for the main file
OpenCreate ==
    /\ pc = "Create"
    /\ IF dwErrCode = ERROR_SUCCESS
       THEN \E bf \in BuildFileOutcomes(pArgs, szParamsCopy.buf, bOnlineStorage) :
              /\ hs' = "hs"
              /\ storage' = NewStorage
              /\ BuildFile' = [BuildFileType |-> bf.BuildFileType, dwFeatures |-> bf.dwFeatures]
              /\ dwErrCode' = bf.err
              /\ pc' = IF bf.err = ERROR_SUCCESS THEN "LoadBegin" ELSE "Finish"
       ELSE /\ pc' = "Finish"
            /\ UNCHANGED <<hs, storage, BuildFile, dwErrCode>>
    /\ UNCHANGED <<szParams, pArgs, bOnlineStorage, szParamsCopy, lastError, phStorage,
                   retval, heap, socketsCaching, trace, callbacks, root, ub, owned,
                   peer, info, query, parts, central>>

\* ------------------------------------------------------------------------
\* CascOpenStorageEx, after LoadCascStorage

\* "hs = hs->Release()" with hs == NULL and the process dies there
FinishCrash ==
    /\ pc = "Finish"
    /\ dwErrCode # ERROR_SUCCESS
    /\ hs = "NULL"
    /\ ub' = ub \cup {"Release on NULL storage"}
    /\ pc' = "Crashed"
    /\ UNCHANGED <<szParams, pArgs, bOnlineStorage, szParamsCopy, dwErrCode, lastError,
                   phStorage, retval, hs, storage, heap, socketsCaching, trace, callbacks,
                   BuildFile, root, owned, peer, info, query, parts, central>>

\* Delete the storage on error, free the copy, give the handle to the caller
Finish ==
    /\ pc = "Finish"
    /\ IF dwErrCode # ERROR_SUCCESS
       THEN IF hs = "NULL"
            THEN /\ ub' = ub \cup {"Release on NULL storage"}
                 /\ UNCHANGED <<hs, storage, heap, socketsCaching>>
            ELSE LET r == Release(storage, heap, socketsCaching) IN
                 /\ storage' = r.st
                 /\ heap' = r.hp
                 /\ socketsCaching' = r.sock
                 /\ hs' = IF r.ret = "NULL" THEN "NULL" ELSE "hs"
                 /\ UNCHANGED ub
       ELSE UNCHANGED <<hs, storage, heap, socketsCaching, ub>>
    /\ szParamsCopy' = IF szParamsCopy.state = "live"
                       THEN [szParamsCopy EXCEPT !.state = "freed"] ELSE szParamsCopy
    /\ phStorage' = IF phStorage = "NoCell" THEN phStorage ELSE hs'
    /\ lastError' = IF dwErrCode # ERROR_SUCCESS THEN dwErrCode ELSE lastError
    /\ retval' = IF dwErrCode = ERROR_SUCCESS THEN "true" ELSE "false"
    /\ pc' = "Returned"
    /\ UNCHANGED <<szParams, pArgs, bOnlineStorage, dwErrCode, trace, callbacks,
                   BuildFile, root, owned, peer, info, query, parts, central>>

\* ------------------------------------------------------------------------
\* LoadCascStorage: one action per phase.  A phase whose guard
\* "dwErrCode == ERROR_SUCCESS" fails is stepped over without any effect.

Unchanged_Open == UNCHANGED <<szParams, pArgs, bOnlineStorage, szParamsCopy, phStorage,
                              retval, hs, BuildFile, owned, peer, info, query,
                              parts, central>>

\* Features of the storage after "Merge features"
MergeFeatures(bf, args) ==
    (bf.dwFeatures \cap {CASC_FEATURE_DATA_ARCHIVES, CASC_FEATURE_DATA_FILES, CASC_FEATURE_ONLINE})
    \cup (args.dwFlags \cap {CASC_FEATURE_FORCE_DOWNLOAD})
    \cup (IF bf.BuildFileType = CascVersions THEN {CASC_FEATURE_ONLINE} ELSE {})

\* Results of CheckArchiveFilesDirectories and CheckDataFilesDirectory
DirectoryChecks == {<<TRUE, TRUE>>, <<FALSE, FALSE>>}

\* Arguments, features, paths, directories, socket caching and LoadMainFile
LoadBegin ==
    /\ pc = "LoadBegin"
    /\ \E pathsOk \in BOOLEAN, dirs \in DirectoryChecks, e \in ExtResults :
         LET archivesOk == dirs[1]
             filesOk == dirs[2]
             merged == MergeFeatures(BuildFile, pArgs)
             checked == merged \ ((IF archivesOk THEN {} ELSE {CASC_FEATURE_DATA_ARCHIVES})
                                  \cup (IF filesOk THEN {} ELSE {CASC_FEATURE_DATA_FILES}))
         IN
         IF pathsOk
         THEN /\ storage' = [storage EXCEPT !.pArgs = TRUE, !.dwFeatures = checked,
                                            !.BuildFileType = BuildFile.BuildFileType]
              /\ socketsCaching' = IF CASC_FEATURE_ONLINE \in checked
                                   THEN sockets_set_caching(socketsCaching, TRUE)
                                   ELSE socketsCaching
              /\ dwErrCode' = e
              /\ trace' = Append(trace, Event("MainFile", e))
         ELSE /\ archivesOk /\ filesOk /\ e = ERROR_SUCCESS
              /\ storage' = [storage EXCEPT !.pArgs = TRUE, !.dwFeatures = merged,
                                            !.BuildFileType = BuildFile.BuildFileType]
              /\ dwErrCode' = ERROR_NOT_ENOUGH_MEMORY
              /\ UNCHANGED <<socketsCaching, trace>>
    /\ pc' = "CdnConfig"
    /\ UNCHANGED <<lastError, heap, callbacks, root, ub>>
    /\ Unchanged_Open

\* The softening of a failed LoadCdnConfigFile
SoftenCdnConfigMutant(e, features) == ERROR_SUCCESS
SoftenCdnConfig(e, features) ==
    IF e # ERROR_SUCCESS /\ CASC_FEATURE_ONLINE \notin features THEN ERROR_SUCCESS ELSE e

LoadCdnConfig ==
    /\ pc = "CdnConfig"
    /\ IF Proceed(dwErrCode)
       THEN \E e \in ExtResults :
              /\ dwErrCode' = SoftenCdnConfig(e, storage.dwFeatures)
              /\ trace' = Append(trace, Event("CdnConfig", e))
       ELSE UNCHANGED <<dwErrCode, trace>>
    /\ pc' = "CdnBuild"
    /\ UNCHANGED <<lastError, storage, heap, socketsCaching, callbacks, root, ub>>
    /\ Unchanged_Open

LoadCdnBuild ==
    /\ pc = "CdnBuild"
    /\ IF Proceed(dwErrCode)
       THEN \E e \in ExtResults :
              /\ dwErrCode' = e
              /\ trace' = Append(trace, Event("CdnBuild", e))
       ELSE UNCHANGED <<dwErrCode, trace>>
    /\ pc' = "InitCKeyArray"
    /\ UNCHANGED <<lastError, storage, heap, socketsCaching, callbacks, root, ub>>
    /\ Unchanged_Open

\* InitCKeyArray: CKeyArray.Create, CKeyMap.Create, EKeyMap.Create
InitCKeyArray ==
    /\ pc = "InitCKeyArray"
    /\ IF Proceed(dwErrCode)
       THEN \E e \in {ERROR_SUCCESS, ERROR_NOT_ENOUGH_MEMORY} :
              /\ dwErrCode' = e
              /\ trace' = Append(trace, Event("CKeyArray", e))
       ELSE UNCHANGED <<dwErrCode, trace>>
    /\ pc' = "IndexFiles"
    /\ UNCHANGED <<lastError, storage, heap, socketsCaching, callbacks, root, ub>>
    /\ Unchanged_Open

\* LoadIndexFiles: the index buffers are allocated, also by a load that fails
LoadIndexFiles ==
    /\ pc = "IndexFiles"
    /\ IF Proceed(dwErrCode)
       THEN \E e \in ExtResults :
              /\ dwErrCode' = e
              /\ storage' = [storage EXCEPT !.IndexFiles = TRUE]
              /\ trace' = Append(trace, Event("IndexFiles", e))
       ELSE UNCHANGED <<dwErrCode, storage, trace>>
    /\ pc' = "Encoding"
    /\ UNCHANGED <<lastError, heap, socketsCaching, callbacks, root, ub>>
    /\ Unchanged_Open

\* ------------------------------------------------------------------------
\* ENCODING

\* What LoadEncodingManifest meets: the callback's answer, CopyEKeyEntry,
\* LoadInternalFileToMemory, the header and the pages of the blob
EncodingOk ==
    [cancel |-> FALSE, copyOk |-> TRUE, load |-> [err |-> ERROR_SUCCESS, cbData |-> 64],
     header |-> "ok", pages |-> "ok"]

EncodingInputs ==
    { EncodingOk,
      [EncodingOk EXCEPT !.cancel = TRUE],
      [EncodingOk EXCEPT !.copyOk = FALSE],
      [EncodingOk EXCEPT !.load = [err |-> ERROR_FILE_NOT_FOUND, cbData |-> 0]],
      [EncodingOk EXCEPT !.load = [err |-> ERROR_SUCCESS, cbData |-> 0]],
      [EncodingOk EXCEPT !.header = "bad"],
      [EncodingOk EXCEPT !.pages = "truncated"],
      [EncodingOk EXCEPT !.pages = "mismatch"] }

\* CaptureEncodingHeader
CaptureEncodingHeader(header) == IF header = "ok" THEN ERROR_SUCCESS ELSE ERROR_BAD_FORMAT

\* The loop over the CKey pages: space check, first-key check, LoadEncodingCKeyPage
LoadEncodingPages(pages) == IF pages = "ok" THEN ERROR_SUCCESS ELSE ERROR_FILE_CORRUPT

\* LoadEncodingManifest: code returned, last error afterwards, entries added
\* to the central array, whether a data file stream was opened
LoadEncodingManifest(in, le) ==
    IF in.cancel
    THEN [code |-> ERROR_CANCELLED, lastError |-> le, items |-> 0, opened |-> FALSE]
    ELSE IF ~in.copyOk
    THEN [code |-> ERROR_FILE_NOT_FOUND, lastError |-> le, items |-> 0, opened |-> FALSE]
    ELSE
      LET f == LoadInternalFileToMemory(in.load, le) IN
      IF f.err = ERROR_SUCCESS /\ f.cbData # 0
      THEN LET h == CaptureEncodingHeader(in.header)
               g == IF h = ERROR_SUCCESS THEN LoadEncodingPages(in.pages) ELSE h
           IN [code |-> g, lastError |-> f.lastError,
               items |-> IF g = ERROR_SUCCESS THEN 3 ELSE 1, opened |-> TRUE]
      ELSE [code |-> f.lastError, lastError |-> f.lastError, items |-> 1,
            opened |-> f.err = ERROR_SUCCESS]

LoadEncoding ==
    /\ pc = "Encoding"
    /\ IF Proceed(dwErrCode)
       THEN \E in \in EncodingInputs :
              LET r == LoadEncodingManifest(in, lastError) IN
              /\ dwErrCode' = r.code
              /\ lastError' = r.lastError
              /\ storage' = [storage EXCEPT !.CKeyItems = @ + r.items,
                                            !.DataFiles = IF r.opened THEN @ \cup {0} ELSE @]
              /\ callbacks' = Append(callbacks, Callback("Loading ENCODING manifest", in.cancel))
              /\ trace' = Append(trace, [phase |-> "Encoding", code |-> r.code, in |-> in])
       ELSE UNCHANGED <<dwErrCode, lastError, storage, callbacks, trace>>
    /\ pc' = "Download"
    /\ UNCHANGED <<heap, socketsCaching, root, ub>>
    /\ Unchanged_Open

\* ------------------------------------------------------------------------
\* DOWNLOAD

DownloadOk ==
    [cancel |-> FALSE, load |-> [err |-> ERROR_SUCCESS, cbData |-> 64],
     header |-> "ok", parse |-> ERROR_SUCCESS]

DownloadInputs ==
    { DownloadOk,
      [DownloadOk EXCEPT !.cancel = TRUE],
      [DownloadOk EXCEPT !.load = [err |-> ERROR_FILE_NOT_FOUND, cbData |-> 0]],
      [DownloadOk EXCEPT !.header = "bad"],
      [DownloadOk EXCEPT !.parse = ERROR_NOT_ENOUGH_MEMORY] }

\* CaptureDownloadHeader
CaptureDownloadHeader(header) == IF header = "ok" THEN ERROR_SUCCESS ELSE ERROR_BAD_FORMAT

\* LoadDownloadManifest(hs): the code of the load, of the header or of the parse
LoadDownloadManifest(in, le) ==
    IF in.cancel
    THEN [code |-> ERROR_CANCELLED, lastError |-> le, items |-> 0, opened |-> FALSE]
    ELSE
      LET f == LoadInternalFileToMemory(in.load, le) IN
      IF f.err = ERROR_SUCCESS /\ f.cbData # 0
      THEN LET h == CaptureDownloadHeader(in.header)
               g == IF h = ERROR_SUCCESS THEN in.parse ELSE h
           IN [code |-> g, lastError |-> f.lastError,
               items |-> IF h = ERROR_SUCCESS THEN 1 ELSE 0, opened |-> TRUE]
      ELSE [code |-> f.err, lastError |-> f.lastError, items |-> 0,
            opened |-> f.err = ERROR_SUCCESS]

LoadDownload ==
    /\ pc = "Download"
    /\ IF Proceed(dwErrCode)
       THEN \E in \in DownloadInputs :
              LET r == LoadDownloadManifest(in, lastError) IN
              /\ dwErrCode' = r.code
              /\ lastError' = r.lastError
              /\ storage' = [storage EXCEPT !.CKeyItems = @ + r.items,
                                            !.DataFiles = IF r.opened THEN @ \cup {0} ELSE @]
              /\ callbacks' = Append(callbacks, Callback("Loading DOWNLOAD manifest", in.cancel))
              /\ trace' = Append(trace, [phase |-> "Download", code |-> r.code, in |-> in])
       ELSE UNCHANGED <<dwErrCode, lastError, storage, callbacks, trace>>
    /\ pc' = "RootBegin"
    /\ UNCHANGED <<heap, socketsCaching, root, ub>>
    /\ Unchanged_Open

\* ------------------------------------------------------------------------
\* ROOT: LoadBuildManifest

\* First four bytes of the ROOT blob
RootSignatures == {"MNDX", "DIABLO3", "TVFS", "WOW", "other"}

\* What a handler builder (RootHandler_CreateXXX) can do: on success, and
\* possibly when it asks for a reparse, it has stored a new handler in
\* hs->pRootHandler; on failure it has not touched it
BuilderResults ==
    { [code |-> ERROR_SUCCESS, handler |-> TRUE],
      [code |-> ERROR_REPARSE_ROOT, handler |-> TRUE],
      [code |-> ERROR_REPARSE_ROOT, handler |-> FALSE],
      [code |-> ERROR_BAD_FORMAT, handler |-> FALSE],
      [code |-> ERROR_NOT_ENOUGH_MEMORY, handler |-> FALSE] }

RootLoadOutcomes ==
    { [err |-> ERROR_SUCCESS, cbData |-> 64],
      [err |-> ERROR_SUCCESS, cbData |-> MD5_STRING_SIZE],
      [err |-> ERROR_FILE_NOT_FOUND, cbData |-> 0] }

\* The switch on FileSignature[0]: r1 is the answer of the builder chosen by
\* the signature (of RootHandler_CreateOverwatch in the default branch),
\* r2 of RootHandler_CreateStarcraft1, r3 of RootHandler_CreateWoW
DispatchRoot(sig, r1, r2, r3) ==
    IF sig # "other" THEN r1
    ELSE IF r1.code # ERROR_BAD_FORMAT THEN r1
    ELSE IF r2.code # ERROR_BAD_FORMAT THEN r2
    ELSE r3

\* One pass through __LoadRootFile: the code and whether a handler was made
LoadRootFile(out, sig, r1, r2, r3, le) ==
    LET f == LoadInternalFileToMemory(out, le) IN
    IF f.err = ERROR_SUCCESS
    THEN IF f.cbData > MD5_STRING_SIZE
         THEN LET d == DispatchRoot(sig, r1, r2, r3)
              IN [code |-> d.code, handler |-> d.handler, lastError |-> f.lastError, opened |-> TRUE]
         ELSE [code |-> ERROR_SUCCESS, handler |-> FALSE, lastError |-> f.lastError, opened |-> TRUE]
    ELSE [code |-> f.lastError, handler |-> FALSE, lastError |-> f.lastError, opened |-> FALSE]

\* A new handler instance whose name -> CKey map holds the names of its source:
\* <<"root", n>> for pass n of the dispatcher, <<"install", 0>> for INSTALL
NewHandler(src) == [alive |-> TRUE, deletes |-> 0, names |-> {src}]

\* The progress callback and the choice between VfsRoot and RootFile
RootBegin ==
    /\ pc = "RootBegin"
    /\ IF Proceed(dwErrCode)
       THEN \E cancel \in BOOLEAN, vfs \in BOOLEAN :
              /\ callbacks' = Append(callbacks, Callback("Loading ROOT manifest", cancel))
              /\ IF cancel
                 THEN /\ dwErrCode' = ERROR_CANCELLED
                      /\ trace' = Append(trace, Event("Root", ERROR_CANCELLED))
                      /\ pc' = "Install"
                      /\ ~vfs
                      /\ UNCHANGED root
                 ELSE /\ root' = [root EXCEPT !.hasVfsRoot = vfs,
                                              !.pCKeyEntry = IF vfs THEN "VfsRoot" ELSE "RootFile"]
                      /\ pc' = "RootLoad"
                      /\ UNCHANGED <<dwErrCode, trace>>
       ELSE /\ pc' = "WellKnown"
            /\ UNCHANGED <<dwErrCode, trace, callbacks, root>>
    /\ UNCHANGED <<lastError, storage, heap, socketsCaching, ub>>
    /\ Unchanged_Open

\* __LoadRootFile: look the key up in the central table, load the blob,
\* dispatch on its signature
RootPass(found, r) ==
    LET n == Len(root.loadKeys) + 1 IN
    /\ dwErrCode' = r.code
    /\ lastError' = r.lastError
    /\ heap' = IF r.handler THEN Append(heap, NewHandler(<<"root", n>>)) ELSE heap
    /\ storage' = [storage EXCEPT
          !.pRootHandler = IF r.handler THEN Len(heap) + 1 ELSE @,
          !.DataFiles = IF r.opened THEN @ \cup {0} ELSE @]
    /\ root' = [root EXCEPT
          !.loadKeys = Append(@, root.pCKeyEntry),
          !.pCKeyEntry = IF found THEN "CKeyArray" ELSE "NULL"]

RootLoad ==
    /\ pc = "RootLoad"
    /\ Len(root.loadKeys) < MaxRootLoads
    /\ \E out \in RootLoadOutcomes :
         \* FindCKeyEntry_CKey: a key missing from the central table gives NULL,
         \* which LoadInternalFileToMemory cannot load
         LET found == out.err = ERROR_SUCCESS IN
         /\ IF out.err = ERROR_SUCCESS /\ out.cbData > MD5_STRING_SIZE
            THEN \E sig \in RootSignatures, r1 \in BuilderResults, r2 \in BuilderResults,
                    r3 \in BuilderResults :
                   RootPass(found, LoadRootFile(out, sig, r1, r2, r3, lastError))
            ELSE LET none == [code |-> ERROR_BAD_FORMAT, handler |-> FALSE]
                 IN RootPass(found, LoadRootFile(out, "other", none, none, none, lastError))
    /\ pc' = "RootAfter"
    /\ UNCHANGED <<socketsCaching, trace, callbacks, ub>>
    /\ Unchanged_Open

\* The test "dwErrCode == ERROR_REPARSE_ROOT && pCKeyEntry != &hs->RootFile"
ReparseRoot(err, pCKeyEntry) == err = ERROR_REPARSE_ROOT /\ pCKeyEntry # "RootFile"

\* TRootHandler::Copy(pOld) followed by "delete pOld"
CopyAndDelete(hp, new, old) ==
    DeleteHandler([hp EXCEPT ![new].names = @ \cup hp[old].names], old)

\* After the dispatch: reparse with the original ROOT key, or copy the old
\* handler's items and return
RootAfter ==
    /\ pc = "RootAfter"
    /\ IF ReparseRoot(dwErrCode, root.pCKeyEntry)
       THEN \E cancel \in BOOLEAN :
              /\ callbacks' = Append(callbacks, Callback("Loading ROOT manifest (reparsed)", cancel))
              /\ IF cancel
                 THEN /\ dwErrCode' = ERROR_CANCELLED
                      /\ trace' = Append(trace, Event("Root", ERROR_CANCELLED))
                      /\ pc' = "Install"
                      /\ UNCHANGED <<root, storage, heap>>
                 ELSE /\ root' = [root EXCEPT !.pOldRootHandler = storage.pRootHandler,
                                              !.pCKeyEntry = "RootFile"]
                      /\ storage' = [storage EXCEPT !.pRootHandler = 0]
                      /\ pc' = "RootLoad"
                      /\ UNCHANGED <<dwErrCode, trace, heap>>
       ELSE /\ heap' = IF storage.pRootHandler # 0 /\ root.pOldRootHandler # 0
                       THEN CopyAndDelete(heap, storage.pRootHandler, root.pOldRootHandler)
                       ELSE heap
            /\ trace' = Append(trace, Event("Root", dwErrCode))
            /\ pc' = "Install"
            /\ UNCHANGED <<dwErrCode, callbacks, root, storage>>
    /\ UNCHANGED <<lastError, socketsCaching, ub>>
    /\ Unchanged_Open

\* ------------------------------------------------------------------------
\* INSTALL as the replacement of a failed ROOT, well-known names, keys

\* "dwErrCode != ERROR_SUCCESS && dwErrCode != ERROR_NOT_ENOUGH_MEMORY"
UseInstallMutant(err) == err # ERROR_SUCCESS
UseInstall(err) == err # ERROR_SUCCESS /\ err # ERROR_NOT_ENOUGH_MEMORY

InstallOk ==
    [cancel |-> FALSE, load |-> [err |-> ERROR_SUCCESS, cbData |-> 64],
     create |-> [code |-> ERROR_SUCCESS, handler |-> TRUE]]

InstallInputs ==
    { InstallOk,
      [InstallOk EXCEPT !.cancel = TRUE],
      [InstallOk EXCEPT !.load = [err |-> ERROR_FILE_NOT_FOUND, cbData |-> 0]],
      [InstallOk EXCEPT !.load = [err |-> ERROR_SUCCESS, cbData |-> 0]],
      [InstallOk EXCEPT !.create = [code |-> ERROR_BAD_FORMAT, handler |-> FALSE]] }

\* LoadInstallManifest
LoadInstallManifest(in, le) ==
    IF in.cancel
    THEN [code |-> ERROR_CANCELLED, handler |-> FALSE, lastError |-> le, opened |-> FALSE]
    ELSE
      LET f == LoadInternalFileToMemory(in.load, le) IN
      IF f.err = ERROR_SUCCESS /\ f.cbData # 0
      THEN [code |-> in.create.code, handler |-> in.create.handler,
            lastError |-> f.lastError, opened |-> TRUE]
      ELSE [code |-> f.lastError, handler |-> FALSE, lastError |-> f.lastError,
            opened |-> f.err = ERROR_SUCCESS]

\* The end of the ROOT block of LoadCascStorage
LoadInstall ==
    /\ pc = "Install"
    /\ IF UseInstall(dwErrCode)
       THEN \E in \in InstallInputs :
              LET r == LoadInstallManifest(in, lastError) IN
              /\ dwErrCode' = r.code
              /\ lastError' = r.lastError
              /\ heap' = IF r.handler THEN Append(heap, NewHandler(<<"install", 0>>)) ELSE heap
              /\ storage' = [storage EXCEPT
                    !.pRootHandler = IF r.handler THEN Len(heap) + 1 ELSE @,
                    !.DataFiles = IF r.opened THEN @ \cup {0} ELSE @]
              /\ callbacks' = Append(callbacks, Callback("Loading INSTALL manifest", in.cancel))
              /\ trace' = Append(trace, [phase |-> "Install", code |-> r.code, in |-> in])
       ELSE UNCHANGED <<dwErrCode, lastError, heap, storage, callbacks, trace>>
    /\ pc' = "WellKnown"
    /\ UNCHANGED <<socketsCaching, root, ub>>
    /\ Unchanged_Open

\* InsertWellKnownFile for ENCODING .. SIZE calls hs->pRootHandler->Insert
\* with a NULL root handler and the process dies there
WellKnownCrash ==
    /\ pc = "WellKnown"
    /\ Proceed(dwErrCode)
    /\ storage.pRootHandler = 0
    /\ ub' = ub \cup {"Insert on NULL root handler"}
    /\ pc' = "Crashed"
    /\ UNCHANGED <<dwErrCode, lastError, storage, heap, socketsCaching, trace, callbacks, root>>
    /\ Unchanged_Open

\* The six InsertWellKnownFile calls.  ENCODING has a CKey in the build
\* file and LoadEncodingManifest has put its entry into the central table,
\* so at least that call reaches hs->pRootHandler->Insert
InsertWellKnownFiles ==
    /\ pc = "WellKnown"
    /\ IF Proceed(dwErrCode)
       THEN /\ trace' = Append(trace, Event("WellKnown", ERROR_SUCCESS))
            /\ IF storage.pRootHandler = 0
               THEN /\ ub' = ub \cup {"Insert on NULL root handler"}
                    /\ UNCHANGED heap
               ELSE /\ heap' = [heap EXCEPT ![storage.pRootHandler].names = @ \cup {<<"well-known", 0>>}]
                    /\ UNCHANGED ub
       ELSE UNCHANGED <<trace, heap, ub>>
    /\ pc' = "Keys"
    /\ UNCHANGED <<dwErrCode, lastError, storage, socketsCaching, callbacks, root>>
    /\ Unchanged_Open

\* CascLoadEncryptionKeys
LoadEncryptionKeys ==
    /\ pc = "Keys"
    /\ IF Proceed(dwErrCode)
       THEN \E e \in ExtResults :
              /\ dwErrCode' = e
              /\ trace' = Append(trace, Event("Keys", e))
       ELSE UNCHANGED <<dwErrCode, trace>>
    /\ pc' = "Cleanup"
    /\ UNCHANGED <<lastError, storage, heap, socketsCaching, callbacks, root, ub>>
    /\ Unchanged_Open

\* FreeIndexFiles(hs); hs->pArgs = NULL
CleanupMutant(st) == [st EXCEPT !.pArgs = FALSE]
Cleanup(st) == [st EXCEPT !.IndexFiles = FALSE, !.pArgs = FALSE]

\* "Cleanup and exit", reached by every load whatever its error code
LoadCleanup ==
    /\ pc = "Cleanup"
    /\ storage' = Cleanup(storage)
    /\ pc' = "Finish"
    /\ UNCHANGED <<dwErrCode, lastError, heap, socketsCaching, trace, callbacks, root, ub>>
    /\ Unchanged_Open

\* ------------------------------------------------------------------------
\* The specification of one open

Next ==
    \/ OpenNoMemory
    \/ OpenParse
    \/ OpenCreate
    \/ LoadBegin
    \/ LoadCdnConfig
    \/ LoadCdnBuild
    \/ InitCKeyArray
    \/ LoadIndexFiles
    \/ LoadEncoding
    \/ LoadDownload
    \/ RootBegin
    \/ RootLoad
    \/ RootAfter
    \/ LoadInstall
    \/ WellKnownCrash
    \/ InsertWellKnownFiles
    \/ LoadEncryptionKeys
    \/ LoadCleanup
    \/ FinishCrash
    \/ Finish

Spec == Init /\ [][Next]_vars

\* ------------------------------------------------------------------------
\* Properties of the open pipeline

\* The phases of LoadCascStorage in the order of the source
PhaseOrder ==
    <<"MainFile", "CdnConfig", "CdnBuild", "CKeyArray", "IndexFiles", "Encoding",
      "Download", "Root", "Install", "WellKnown", "Keys">>

PhaseRank(p) == CHOOSE i \in 1..Len(PhaseOrder) : PhaseOrder[i] = p

IsOnline == CASC_FEATURE_ONLINE \in storage.dwFeatures

Last(s) == s[Len(s)]

\* The open has left LoadCascStorage
LoadDone == pc \in {"Finish", "Returned"}

\* C1: the phases run in the fixed order without a gap, and a phase that is
\* followed by another one ended in success, or was a CDN config failure of
\* a storage that is not online, or a ROOT failure other than out of memory
\* that is followed by INSTALL; so nothing runs after an unsoftened error.
C1_PhasesInOrder ==
    \A i \in 1..(Len(trace) - 1) :
       /\ \/ PhaseRank(trace[i + 1].phase) = PhaseRank(trace[i].phase) + 1
          \/ trace[i].phase = "Root" /\ trace[i + 1].phase = "WellKnown"
       /\ \/ trace[i].code = ERROR_SUCCESS
          \/ trace[i].phase = "CdnConfig" /\ ~IsOnline
          \/ /\ trace[i].phase = "Root"
             /\ trace[i].code # ERROR_NOT_ENOUGH_MEMORY
             /\ trace[i + 1].phase = "Install"

\* An open that softened a CDN config failure and then stopped at a failed ENCODING
C1_Witness ==
    /\ pc = "Returned"
    /\ Len(trace) = 6
    /\ trace[2].phase = "CdnConfig" /\ trace[2].code = ERROR_FILE_NOT_FOUND
    /\ trace[6].phase = "Encoding" /\ trace[6].code = ERROR_BAD_FORMAT

\* The code CascOpenStorageEx failed with
FailingCode ==
    IF ~szParams.null /\ szParamsCopy.state = "none"
    THEN ERROR_NOT_ENOUGH_MEMORY
    ELSE dwErrCode

\* C2: when CascOpenStorageEx has returned false the caller's cell holds a
\* null handle, the last error is the code of the failure and the storage
\* object, if one was created, is destroyed with its handler, streams and
\* index buffers.
C2_FailureLeavesNothing ==
    retval = "false" =>
       /\ phStorage \in {"NULL", "NoCell"}
       /\ lastError = FailingCode
       /\ storage.state # "alive"
       /\ \A h \in DOMAIN heap : storage.pRootHandler = h => ~heap[h].alive
       /\ storage.DataFiles = {} /\ ~storage.IndexFiles

\* C3: an answer "cancel" of the progress callback is the last thing the
\* loading does: no later phase asks the callback again, and the open returns
\* false with ERROR_CANCELLED and a destroyed storage.
C3_CancelEndsOpen ==
    \A i \in DOMAIN callbacks :
       callbacks[i].cancel =>
          /\ i = Len(callbacks)
          /\ LoadDone => dwErrCode = ERROR_CANCELLED
          /\ pc = "Returned" =>
                retval = "false" /\ lastError = ERROR_CANCELLED /\ storage.state = "deleted"

\* An ENCODING blob that cannot be loaded, is empty, or has a bad header or page
EncodingBroken(in) ==
    /\ ~in.cancel /\ in.copyOk
    /\ \/ in.load.err # ERROR_SUCCESS
       \/ in.load.cbData = 0
       \/ in.header # "ok"
       \/ in.pages # "ok"

\* C4: a broken ENCODING makes LoadEncodingManifest return an error, no
\* phase runs after it and the open returns false.
C4_EncodingFatal ==
    \A i \in DOMAIN trace :
       (trace[i].phase = "Encoding" /\ EncodingBroken(trace[i].in)) =>
          /\ trace[i].code # ERROR_SUCCESS
          /\ i = Len(trace)
          /\ pc = "Returned" => retval = "false"

\* A DOWNLOAD blob that cannot be loaded or whose header is rejected
DownloadBroken(in) ==
    /\ ~in.cancel
    /\ in.load.err # ERROR_SUCCESS \/ in.header # "ok"

RootCallbackMade == \E i \in DOMAIN callbacks : callbacks[i].msg = "Loading ROOT manifest"

\* C5: after a broken DOWNLOAD the open still enters the ROOT phase.
C5_DownloadNotFatal ==
    \A i \in DOMAIN trace :
       (trace[i].phase = "Download" /\ DownloadBroken(trace[i].in) /\ LoadDone)
          => RootCallbackMade

\* C6: the ROOT blob is loaded at most twice, and only once when the
\* storage has no VFS root.
C6_RootRetriedOnce ==
    /\ Len(root.loadKeys) <= 2
    /\ ~root.hasVfsRoot => Len(root.loadKeys) <= 1

\* LoadBuildManifest has returned from a reparse whose last pass made a handler
ReparseDone ==
    /\ pc = "Install"
    /\ Last(trace).phase = "Root" /\ Last(trace).code # ERROR_CANCELLED
    /\ Len(root.loadKeys) >= 2
    /\ storage.pRootHandler # 0
    /\ <<"root", Len(root.loadKeys)>> \in heap[storage.pRootHandler].names

\* C7: after a reparse that ended with a new handler, every handler of an
\* earlier pass has been deleted exactly once and its names are in the
\* final handler.
C7_OldHandlerCopied ==
    ReparseDone =>
       \A h \in DOMAIN heap \ {storage.pRootHandler} :
          /\ heap[h].deletes = 1
          /\ heap[h].names \subseteq heap[storage.pRootHandler].names

\* Position of the ROOT event in the trace, 0 when the phase did not run
RootEvent ==
    IF \E i \in DOMAIN trace : trace[i].phase = "Root"
    THEN CHOOSE i \in DOMAIN trace : trace[i].phase = "Root"
    ELSE 0

InstallWanted(code) == code # ERROR_SUCCESS /\ code # ERROR_NOT_ENOUGH_MEMORY

\* C8: once the ROOT block of LoadCascStorage is left, INSTALL has been
\* loaded exactly when ROOT ran and ended with a code other than success and
\* out of memory, and then the code the pipeline goes on with is the one of
\* LoadInstallManifest; after out of memory in ROOT nothing else runs and
\* the open fails with that code.
C8_InstallFallback ==
    /\ \A i \in DOMAIN trace :
          trace[i].phase = "Install" =>
             i > 1 /\ trace[i - 1].phase = "Root" /\ InstallWanted(trace[i - 1].code)
    /\ (RootEvent # 0 /\ pc \notin {"Install", "RootLoad", "RootAfter"}) =>
          IF InstallWanted(trace[RootEvent].code)
          THEN /\ Len(trace) > RootEvent
               /\ trace[RootEvent + 1].phase = "Install"
               /\ pc = "WellKnown" => dwErrCode = trace[RootEvent + 1].code
          ELSE /\ \A i \in DOMAIN trace : trace[i].phase # "Install"
               /\ trace[RootEvent].code = ERROR_NOT_ENOUGH_MEMORY =>
                     /\ RootEvent = Len(trace)
                     /\ dwErrCode = ERROR_NOT_ENOUGH_MEMORY
                     /\ pc = "Returned" => retval = "false"

\* A ROOT that failed with a bad format was replaced by a loaded INSTALL
C8_Witness ==
    /\ pc = "WellKnown"
    /\ RootEvent # 0
    /\ trace[RootEvent].code = ERROR_BAD_FORMAT
    /\ Last(trace).phase = "Install"
    /\ dwErrCode = ERROR_SUCCESS
    /\ storage.pRootHandler # 0

\* Position of the CDN config event in the trace, 0 when the phase did not run
CdnConfigEvent ==
    IF \E i \in DOMAIN trace : trace[i].phase = "CdnConfig"
    THEN CHOOSE i \in DOMAIN trace : trace[i].phase = "CdnConfig"
    ELSE 0

\* C9: after a failed LoadCdnConfigFile the CDN build phase runs exactly
\* when the storage is not online; an online storage skips every later
\* phase and the open fails with the code of LoadCdnConfigFile.
C9_CdnConfigSoftening ==
    (CdnConfigEvent # 0 /\ trace[CdnConfigEvent].code # ERROR_SUCCESS /\ pc # "CdnBuild") =>
       IF IsOnline
       THEN /\ CdnConfigEvent = Len(trace)
            /\ dwErrCode = trace[CdnConfigEvent].code
            /\ pc = "Returned" => retval = "false" /\ lastError = trace[CdnConfigEvent].code
       ELSE /\ Len(trace) > CdnConfigEvent
            /\ trace[CdnConfigEvent + 1].phase = "CdnBuild"

\* An online storage whose open failed with the code of LoadCdnConfigFile
C9_Witness ==
    /\ pc = "Returned"
    /\ IsOnline
    /\ CdnConfigEvent # 0
    /\ trace[CdnConfigEvent].code = ERROR_FILE_NOT_FOUND
    /\ retval = "false"
    /\ lastError = ERROR_FILE_NOT_FOUND

\* C13: when LoadCascStorage has returned, with or without an error, the
\* storage holds no index-file buffer and its pArgs is NULL.
C13_LoadReleasesIndexFiles ==
    (LoadDone /\ storage.state = "alive") => (~storage.IndexFiles /\ ~storage.pArgs)

\* A load that failed after the index files were read has returned
C13_Witness ==
    /\ pc = "Finish"
    /\ storage.state = "alive"
    /\ dwErrCode # ERROR_SUCCESS
    /\ \E i \in DOMAIN trace : trace[i].phase = "IndexFiles" /\ trace[i].code = ERROR_SUCCESS
    /\ ~storage.IndexFiles

\* C14: a call whose parameters are refused before a storage object exists
\* (no local path, or a parameter string that conflicts with the args) ends
\* by returning false with ERROR_INVALID_PARAMETER and a null handle, and
\* nothing has been called on the storage object that was never created.
C14_BadParamsRefused ==
    (pc \in {"Finish", "Returned", "Crashed"}
        /\ dwErrCode = ERROR_INVALID_PARAMETER /\ storage.state = "none") =>
       /\ pc # "Crashed"
       /\ ub = {}
       /\ pc = "Returned" =>
             /\ retval = "false"
             /\ lastError = ERROR_INVALID_PARAMETER
             /\ phStorage \in {"NULL", "NoCell"}

\* ------------------------------------------------------------------------
\* Reference counting: threads that share one open storage

Threads == 1..NumThreads

RECURSIVE SumUpTo(_, _)
SumUpTo(f, n) == IF n = 0 THEN 0 ELSE f[n] + SumUpTo(f, n - 1)

\* References held by all threads together
SumRefs == SumUpTo(owned.refs, NumThreads)

\* A storage as a successful open leaves it, its one reference held by thread 1
OpenedStorage(features, type) ==
    [NewStorage EXCEPT !.pRootHandler = 1, !.dwFeatures = features, !.BuildFileType = type,
                       !.DataFiles = {0}, !.CKeyItems = 4]

InitRef ==
    /\ pc = "Returned"
    /\ szParams = NoParams
    /\ pArgs = LocalPathArgs
    /\ bOnlineStorage = FALSE
    /\ szParamsCopy = [state |-> "none", buf |-> <<>>]
    /\ dwErrCode = ERROR_SUCCESS
    /\ lastError = ERROR_SUCCESS
    /\ phStorage = "hs"
    /\ retval = "true"
    /\ hs = "hs"
    /\ \E type \in {CascBuildInfo, CascVersions} :
         LET bf == [BuildFileType |-> type,
                    dwFeatures |-> {CASC_FEATURE_DATA_ARCHIVES, CASC_FEATURE_DATA_FILES}]
         IN /\ BuildFile = bf
            /\ storage = OpenedStorage(MergeFeatures(bf, LocalPathArgs), type)
            /\ socketsCaching = IF type = CascVersions THEN 1 ELSE 0
    /\ heap = <<NewHandler(<<"root", 1>>)>>
    /\ trace = <<>>
    /\ callbacks = <<>>
    /\ root = RootInit
    /\ ub = {}
    /\ Unused(<<"peer", "info", "query", "parts", "central">>)
    /\ owned = [refs |-> [t \in Threads |-> IF t = 1 THEN 1 ELSE 0],
                pcs |-> [t \in Threads |-> "idle"],
                n |-> [t \in Threads |-> 1],
                rets |-> [t \in Threads |-> "none"],
                nulls |-> 0]

Unchanged_Ref ==
    UNCHANGED <<pc, szParams, pArgs, bOnlineStorage, szParamsCopy, dwErrCode, lastError,
                phStorage, retval, hs, trace, callbacks, BuildFile, root, ub,
                peer, info, query, parts, central>>

\* Thread t calls hs->AddRef() on a reference it holds and hands the new
\* reference to thread u
RefAddRef(t) ==
    /\ owned.pcs[t] = "idle"
    /\ owned.refs[t] > 0
    /\ SumRefs < MaxRefs
    /\ storage' = AddRef(storage)
    /\ \E u \in Threads : owned' = [owned EXCEPT !.refs[u] = @ + 1]
    /\ UNCHANGED <<heap, socketsCaching>>
    /\ Unchanged_Ref

\* Thread t gives up a reference (CascCloseStorage): the interlocked decrement
RefRelease(t) ==
    /\ owned.pcs[t] = "idle"
    /\ owned.refs[t] > 0
    /\ LET n == CascInterlockedDecrement(storage.dwRefCount) IN
       /\ storage' = [storage EXCEPT !.dwRefCount = n]
       /\ owned' = [owned EXCEPT !.refs[t] = @ - 1, !.n[t] = n, !.pcs[t] = "test",
                                 !.rets[t] = "none"]
    /\ UNCHANGED <<heap, socketsCaching>>
    /\ Unchanged_Ref

\* Thread t goes on in Release with the value its decrement gave
RefReleaseTest(t) ==
    /\ owned.pcs[t] = "test"
    /\ LET r == ReleaseTest(owned.n[t], storage, heap, socketsCaching) IN
       /\ storage' = r.st
       /\ heap' = r.hp
       /\ socketsCaching' = r.sock
       /\ owned' = [owned EXCEPT !.pcs[t] = "idle", !.rets[t] = r.ret,
                                 !.nulls = IF r.ret = "NULL" THEN @ + 1 ELSE @]
    /\ Unchanged_Ref

NextRef ==
    \/ \E t \in Threads : RefAddRef(t)
    \/ \E t \in Threads : RefRelease(t)
    \/ \E t \in Threads : RefReleaseTest(t)

SpecRef == InitRef /\ [][NextRef]_vars

\* C10: the constructor sets the count to 1; the count always equals the
\* number of references the threads hold; a Release returns NULL exactly
\* when its decrement gave zero; the storage and its root handler are deleted
\* at most once, only by such a Release and only with no reference left,
\* and they are deleted once every reference is given up.
C10_RefCounting ==
    /\ NewStorage.dwRefCount = 1
    /\ storage.dwRefCount = SumRefs
    /\ \A t \in Threads :
          /\ owned.rets[t] = "NULL" => owned.n[t] = 0
          /\ owned.rets[t] = "this" => owned.n[t] > 0
    /\ storage.deletes <= 1 /\ heap[1].deletes <= 1
    /\ storage.deletes = owned.nulls
    /\ storage.state = "deleted" => storage.dwRefCount = 0 /\ ~heap[1].alive
    /\ (SumRefs = 0 /\ \A t \in Threads : owned.pcs[t] = "idle") => storage.state = "deleted"

\* Two threads shared the storage: one Release returned the storage, the
\* Release of another thread destroyed it
C10_Witness ==
    /\ storage.state = "deleted"
    /\ owned.nulls = 1
    /\ \E t, u \in Threads : owned.rets[t] = "NULL" /\ owned.rets[u] = "this"

\* ------------------------------------------------------------------------
\* CascGetStorageInfo on an opened storage

\* Sizes the queries compare the caller's buffer with
SizeofDWORD == 4
SizeofProduct == 32
OffsetofTags == 16
SizeofTag == 16
SizeofTCHAR == 1

\* A string field of the storage that is NULL
NullStr == [null |-> TRUE, s |-> <<>>]

InfoClasses ==
    {"CascStorageLocalFileCount", "CascStorageTotalFileCount", "CascStorageFeatures",
     "CascStorageInstalledLocales", "CascStorageProduct", "CascStorageTags",
     "CascStoragePathProduct", "other"}

\* A file entry of the central array as GetStorageTotalFileCount sees it
FileItem(isFile, refs) == [IsFile |-> isFile, RefCount |-> refs]

\* A storage after a successful open: TotalFiles has been reset to 0
InfoOf(files, tags, code, region) ==
    [TotalFiles |-> 0, LocalFiles |-> 1, dwDefaultLocale |-> 2, dwBuildNumber |-> 7,
     szRootPath |-> <<"a">>, szCodeName |-> code, szRegion |-> region,
     TagsArray |-> tags, Files |-> files, rootFeatures |-> {"FILE_NAMES"}]

InfoInputs ==
    { InfoOf(<<>>, "uninit", NullStr, NullStr),
      InfoOf(<<FileItem(TRUE, 0)>>, <<>>, S(<<"w">>), NullStr),
      InfoOf(<<FileItem(TRUE, 2), FileItem(FALSE, 0), FileItem(TRUE, 0)>>,
             <<[szTagName |-> <<"x">>, TagValue |-> 1]>>, S(<<"w">>), S(<<"u", "s">>)),
      InfoOf(<<FileItem(TRUE, 1), FileItem(TRUE, 3)>>,
             <<[szTagName |-> <<"x">>, TagValue |-> 1], [szTagName |-> <<"y", "z">>, TagValue |-> 2]>>,
             NullStr, S(<<"u", "s">>)) }

\* ProbeOutputBuffer: whether the buffer may be written, the error set (or
\* "none"), and what is stored through pcbLengthNeeded ("unset" when NULL)
ProbeMutant(cbLength, cbMinLength, hasNeeded) ==
    [ok |-> TRUE, err |-> "none", needed |-> IF hasNeeded THEN cbMinLength ELSE "unset"]
ProbeOutputBuffer(cbLength, cbMinLength, hasNeeded) ==
    [ok |-> ~(cbLength < cbMinLength),
     err |-> IF cbLength < cbMinLength THEN ERROR_INSUFFICIENT_BUFFER ELSE "none",
     needed |-> IF hasNeeded THEN cbMinLength ELSE "unset"]

\* GetStorageTotalFileCount: every file counts once, or once per name reference
RECURSIVE GetStorageTotalFileCount(_)
GetStorageTotalFileCount(files) ==
    IF files = <<>> THEN 0
    ELSE LET e == files[1]
             n == IF e.IsFile THEN (IF e.RefCount # 0 THEN e.RefCount ELSE 1) ELSE 0
         IN n + GetStorageTotalFileCount(Tail(files))

\* Bytes of the names of the tags, each with its terminator
RECURSIVE TagNamesLength(_)
TagNamesLength(tags) ==
    IF tags = <<>> THEN 0 ELSE Len(tags[1].szTagName) + 1 + TagNamesLength(Tail(tags))

\* The caller's buffer when the call has not written to it
Untouched == [written |-> FALSE]

\* Result of a query: return value, error set, *pcbLengthNeeded, buffer contents
Answer(probe, value) ==
    [ret |-> probe.ok, err |-> probe.err, needed |-> probe.needed,
     buffer |-> IF probe.ok THEN [written |-> TRUE, value |-> value] ELSE Untouched]

Refused(err) == [ret |-> FALSE, err |-> err, needed |-> "unset", buffer |-> Untouched]

\* The string GetStoragePathProduct composes
PathProduct(st) ==
    st.szRootPath
    \o (IF st.szCodeName.null THEN <<>> ELSE <<CASC_PARAM_SEPARATOR>> \o st.szCodeName.s)
    \o (IF st.szRegion.null THEN <<>> ELSE <<CASC_PARAM_SEPARATOR>> \o st.szRegion.s)

GetStorageProduct(st, cb, hasNeeded) ==
    Answer(ProbeOutputBuffer(cb, SizeofProduct, hasNeeded),
           [szCodeName |-> IF st.szCodeName.null THEN <<>> ELSE st.szCodeName.s,
            BuildNumber |-> st.dwBuildNumber])

GetStorageTags(st, cb, hasNeeded) ==
    IF st.TagsArray = "uninit" THEN Refused(ERROR_NOT_SUPPORTED)
    ELSE LET cbMinLength == OffsetofTags + Len(st.TagsArray) * SizeofTag
                            + TagNamesLength(st.TagsArray)
         IN Answer(ProbeOutputBuffer(cb, cbMinLength, hasNeeded),
                   [TagCount |-> Len(st.TagsArray), Tags |-> st.TagsArray])

GetStoragePathProduct(st, cb, hasNeeded) ==
    LET nLength == Len(st.szRootPath)
                   + (IF st.szCodeName.null THEN 0 ELSE Len(st.szCodeName.s) + 1)
                   + (IF st.szRegion.null THEN 0 ELSE Len(st.szRegion.s) + 1)
                   + 1
    IN Answer(ProbeOutputBuffer(cb, nLength * SizeofTCHAR, hasNeeded), PathProduct(st))

\* CascGetStorageInfo on a valid handle: the storage fields after the call
\* and the result of the call
CascGetStorageInfo(st, dwFeatures, InfoClass, cb, hasNeeded) ==
    LET dword(v) == Answer(ProbeOutputBuffer(cb, SizeofDWORD, hasNeeded), v)
    IN CASE InfoClass = "CascStorageLocalFileCount" ->
              [info |-> st, res |-> dword(st.LocalFiles)]
         [] InfoClass = "CascStorageTotalFileCount" ->
              LET st2 == IF st.TotalFiles = 0
                         THEN [st EXCEPT !.TotalFiles = GetStorageTotalFileCount(st.Files)]
                         ELSE st
              IN [info |-> st2, res |-> dword(st2.TotalFiles)]
         [] InfoClass = "CascStorageFeatures" ->
              [info |-> st, res |-> dword(dwFeatures \cup st.rootFeatures)]
         [] InfoClass = "CascStorageInstalledLocales" ->
              [info |-> st, res |-> dword(st.dwDefaultLocale)]
         [] InfoClass = "CascStorageProduct" ->
              [info |-> st, res |-> GetStorageProduct(st, cb, hasNeeded)]
         [] InfoClass = "CascStorageTags" ->
              [info |-> st, res |-> GetStorageTags(st, cb, hasNeeded)]
         [] InfoClass = "CascStoragePathProduct" ->
              [info |-> st, res |-> GetStoragePathProduct(st, cb, hasNeeded)]
         [] OTHER ->
              [info |-> st, res |-> Refused(ERROR_INVALID_PARAMETER)]

\* Size of the result of a query, where the query has one
SizeNeeded(st, InfoClass) ==
    CascGetStorageInfo(st, {}, InfoClass, 0, TRUE).res.needed

InitInfo ==
    /\ pc = "Returned"
    /\ szParams = NoParams
    /\ pArgs = LocalPathArgs
    /\ bOnlineStorage = FALSE
    /\ szParamsCopy = [state |-> "none", buf |-> <<>>]
    /\ dwErrCode = ERROR_SUCCESS
    /\ lastError = ERROR_SUCCESS
    /\ phStorage = "hs"
    /\ retval = "true"
    /\ hs = "hs"
    /\ BuildFile = [BuildFileType |-> CascBuildInfo,
                    dwFeatures |-> {CASC_FEATURE_DATA_ARCHIVES, CASC_FEATURE_DATA_FILES}]
    /\ storage = OpenedStorage(MergeFeatures(BuildFile, LocalPathArgs), BuildFile.BuildFileType)
    /\ heap = <<NewHandler(<<"root", 1>>)>>
    /\ socketsCaching = 0
    /\ trace = <<>>
    /\ callbacks = <<>>
    /\ root = RootInit
    /\ ub = {}
    /\ owned = None
    /\ info \in InfoInputs
    /\ query = [state |-> "none"]
    /\ Unused(<<"peer", "parts", "central">>)

Unchanged_Info ==
    UNCHANGED <<pc, szParams, pArgs, bOnlineStorage, szParamsCopy, dwErrCode,
                phStorage, retval, hs, storage, heap, socketsCaching, trace, callbacks,
                BuildFile, root, ub, owned, peer, parts, central>>

\* One call of CascGetStorageInfo(hs, InfoClass, buffer, cb, pcbLengthNeeded)
Query(InfoClass, cb, hasNeeded, repeat) ==
    LET out == CascGetStorageInfo(info, storage.dwFeatures, InfoClass, cb, hasNeeded)
    IN /\ storage.state = "alive"
       /\ info' = out.info
       /\ query' = [state |-> "done", InfoClass |-> InfoClass, cb |-> cb,
                    hasNeeded |-> hasNeeded, res |-> out.res, before |-> info,
                    repeat |-> repeat,
                    first |-> IF repeat THEN query.res ELSE out.res]
       /\ lastError' = IF out.res.err = "none" THEN lastError ELSE out.res.err
       /\ Unchanged_Info

InfoQuery ==
    /\ query.state = "none"
    /\ \E InfoClass \in InfoClasses, cb \in 0 .. MaxBuffer, hasNeeded \in BOOLEAN :
            Query(InfoClass, cb, hasNeeded, FALSE)

\* The caller repeats its last query with the same arguments
InfoRepeat ==
    /\ query.state = "done"
    /\ Query(query.InfoClass, query.cb, query.hasNeeded, TRUE)

\* The caller is done with the result of its last query
InfoReturn ==
    /\ query.state = "done"
    /\ query' = [state |-> "none"]
    /\ UNCHANGED <<info, lastError>>
    /\ Unchanged_Info

NextInfo ==
    \/ InfoQuery
    \/ InfoRepeat
    \/ InfoReturn

SpecInfo == InitInfo /\ [][NextInfo]_vars

\* C11: a CascGetStorageInfo call leaves every storage field it reads as it
\* was before the call, and a repeated query returns what the first returned.
C11_QueriesChangeNothing ==
    query.state = "done" =>
        /\ query.before = info
        /\ query.repeat => query.res = query.first

\* The part of C11 that the queries do keep: a repeated query returns what
\* the first call returned
C11_RepeatSame ==
    (query.state = "done" /\ query.repeat) => query.res = query.first

Opens == {1, 2}
Slot(i) == IF i = 1 THEN storage ELSE peer
Loaded(st) == st.state = "alive" /\ st.pRootHandler # 0

\* Storage object i becomes st, the other one is not touched
SetSlot(i, st) ==
    IF i = 1 THEN storage' = st /\ UNCHANGED peer
             ELSE peer' = st /\ UNCHANGED storage

InitTwo ==
    /\ pc = "Returned"
    /\ szParams = NoParams
    /\ pArgs = LocalPathArgs
    /\ bOnlineStorage = FALSE
    /\ szParamsCopy = [state |-> "none", buf |-> <<>>]
    /\ dwErrCode = ERROR_SUCCESS
    /\ lastError = ERROR_SUCCESS
    /\ phStorage = "hs"
    /\ retval = "true"
    /\ hs = "hs"
    /\ BuildFile = NoBuildFile
    /\ storage = NoStorage
    /\ peer = NoStorage
    /\ heap = <<>>
    /\ socketsCaching = 0
    /\ trace = <<>>
    /\ callbacks = <<>>
    /\ root = RootInit
    /\ ub = {}
    /\ owned = [refs |-> [i \in Opens |-> 0]]
    /\ Unused(<<"info", "query", "parts", "central">>)

Unchanged_Two ==
    UNCHANGED <<pc, szParams, pArgs, bOnlineStorage, szParamsCopy, dwErrCode, lastError,
                phStorage, retval, hs, trace, callbacks, BuildFile, root, ub,
                info, query, parts, central>>

\* Open i reaches "hs = new TCascStorage()"
TwoCreate(i) ==
    /\ Slot(i).state = "none"
    /\ SetSlot(i, NewStorage)
    /\ owned' = [owned EXCEPT !.refs[i] = 1]
    /\ UNCHANGED <<heap, socketsCaching>>
    /\ Unchanged_Two

\* Open i loads its storage without an error and hands out the handle
TwoLoad(i) ==
    /\ Slot(i).state = "alive"
    /\ ~Loaded(Slot(i))
    /\ \E type \in {CascBuildInfo, CascVersions} :
         LET bf == [BuildFileType |-> type,
                    dwFeatures |-> {CASC_FEATURE_DATA_ARCHIVES, CASC_FEATURE_DATA_FILES}]
             features == MergeFeatures(bf, LocalPathArgs)
         IN /\ SetSlot(i, [OpenedStorage(features, type) EXCEPT
                              !.dwRefCount = Slot(i).dwRefCount,
                              !.pRootHandler = Len(heap) + 1])
            /\ socketsCaching' = IF CASC_FEATURE_ONLINE \in features
                                 THEN sockets_set_caching(socketsCaching, TRUE)
                                 ELSE socketsCaching
    /\ heap' = Append(heap, NewHandler(<<"root", 1>>))
    /\ UNCHANGED owned
    /\ Unchanged_Two

\* A holder of handle i takes one more reference
TwoAddRef(i) ==
    /\ Loaded(Slot(i))
    /\ Slot(i).dwRefCount < MaxRefs
    /\ SetSlot(i, AddRef(Slot(i)))
    /\ owned' = [owned EXCEPT !.refs[i] = @ + 1]
    /\ UNCHANGED <<heap, socketsCaching>>
    /\ Unchanged_Two

\* CascCloseStorage on handle i
TwoClose(i) ==
    /\ Loaded(Slot(i))
    /\ owned.refs[i] > 0
    /\ LET r == Release(Slot(i), heap, socketsCaching) IN
       /\ SetSlot(i, r.st)
       /\ heap' = r.hp
       /\ socketsCaching' = r.sock
    /\ owned' = [owned EXCEPT !.refs[i] = @ - 1]
    /\ Unchanged_Two

NextTwo ==
    \/ \E i \in Opens : TwoCreate(i)
    \/ \E i \in Opens : TwoLoad(i)
    \/ \E i \in Opens : TwoAddRef(i)
    \/ \E i \in Opens : TwoClose(i)

SpecTwo == InitTwo /\ [][NextTwo]_vars

NoOpenRunning ==
    /\ pc = "Returned"
    /\ szParams = NoParams
    /\ pArgs = EmptyArgs
    /\ bOnlineStorage = FALSE
    /\ szParamsCopy = [state |-> "none", buf |-> <<>>]
    /\ dwErrCode = ERROR_SUCCESS
    /\ lastError = ERROR_SUCCESS
    /\ phStorage = "NULL"
    /\ retval = "none"
    /\ hs = "NULL"
    /\ BuildFile = NoBuildFile
    /\ storage = NoStorage
    /\ heap = <<>>
    /\ socketsCaching = 0
    /\ trace = <<>>
    /\ callbacks = <<>>
    /\ root = RootInit
    /\ ub = {}
    /\ owned = None

LocalPaths == { <<>>, <<"a">>, <<"a", "/", "b">> }
CdnUrls    == { <<"h", ".", "c">>, <<"h", ":", "/", "/", "c">>, <<"/", "c">>, <<".">> }
CodeNames  == { <<>>, <<"w">>, <<"w", "t">>, <<"w", ".", "x">>, <<"w", "/">>, <<"w", ":", "/", "/">> }
Regions    == { <<>>, <<"u", "s">>, <<"e", ".", "u">> }

\* "<local_path>*[<cdn_url>*]<code_name>*<region>"
Joined(p) ==
    p.local_path \o <<CASC_PARAM_SEPARATOR>>
    \o (IF p.cdn_url.null THEN <<>> ELSE p.cdn_url.s \o <<CASC_PARAM_SEPARATOR>>)
    \o p.code_name \o <<CASC_PARAM_SEPARATOR>> \o p.region

InitParse ==
    /\ NoOpenRunning
    /\ \E lp \in LocalPaths, cu \in {NoParams} \cup {S(u) : u \in CdnUrls},
          cn \in CodeNames, rg \in Regions :
         parts = [state |-> "input", local_path |-> lp, cdn_url |-> cu,
                  code_name |-> cn, region |-> rg]
    /\ Unused(<<"peer", "info", "query", "central">>)

\* ParseOpenParams(copy of the joined string, &LocalArgs)
ParseJoined ==
    /\ parts.state = "input"
    /\ LET r == ParseOpenParams(Joined(parts), EmptyArgs) IN
       parts' = [state |-> "parsed", local_path |-> parts.local_path,
                 cdn_url |-> parts.cdn_url, code_name |-> parts.code_name,
                 region |-> parts.region, err |-> r.err, buf |-> r.buf, args |-> r.args]
    /\ UNCHANGED <<pc, szParams, pArgs, bOnlineStorage, szParamsCopy, dwErrCode, lastError,
                   phStorage, retval, hs, storage, heap, socketsCaching, trace, callbacks,
                   BuildFile, root, ub, owned, peer, info, query, central>>

NextParse == ParseJoined

SpecParse == InitParse /\ [][NextParse]_vars

\* The parsed struct is exactly the four parts that were joined
ParsedAsJoined ==
    /\ parts.err = ERROR_SUCCESS
    /\ ArgStr(parts.args.szLocalPath, parts.buf) = parts.local_path
    /\ IF parts.cdn_url.null
       THEN parts.args.szCdnHostUrl = NullPtr
       ELSE /\ parts.args.szCdnHostUrl # NullPtr
            /\ ArgStr(parts.args.szCdnHostUrl, parts.buf) = parts.cdn_url.s
    /\ parts.args.szCodeName # NullPtr
    /\ ArgStr(parts.args.szCodeName, parts.buf) = parts.code_name
    /\ parts.args.szRegion # NullPtr
    /\ ArgStr(parts.args.szRegion, parts.buf) = parts.region

\* The string contains '.' or '/' (and so also every "://")
HasUrlMark(s) == \E i \in DOMAIN s : s[i] \in {".", "/"}

\* C15 as stated: for every local_path, optional cdn_url, code_name and
\* region, the joined legacy string parses to exactly these parts.
C15_LegacyString ==
    parts.state = "parsed" => ParsedAsJoined

\* C15, amended: the joined legacy string parses to exactly its parts when
\* the cdn_url is present, or when the code_name contains neither '.' nor '/'.
C15_LegacyStringAmended ==
    (parts.state = "parsed" /\ (~parts.cdn_url.null \/ ~HasUrlMark(parts.code_name))) =>
        ParsedAsJoined

\* A string with a cdn_url and a code name that looks like a URL was parsed
C15_Witness ==
    /\ parts.state = "parsed"
    /\ ~parts.cdn_url.null
    /\ HasUrlMark(parts.code_name)
    /\ parts.region # <<>>
    /\ ParsedAsJoined

\* ------------------------------------------------------------------------
\* The root handler on the way out of LoadBuildManifest

\* LoadBuildManifest has just returned: to LoadCascStorage, before INSTALL
\* is looked at
LoadBuildManifestReturned == pc = "Install"

\* C35: whenever LoadBuildManifest returns ERROR_SUCCESS the storage owns a
\* root handler, whatever the length of the ROOT blob; so the insertion of
\* the well-known names never calls a null root handler
C35_RootHandlerOwned ==
    /\ (LoadBuildManifestReturned /\ dwErrCode = ERROR_SUCCESS) => storage.pRootHandler # 0
    /\ "Insert on NULL root handler" \notin ub

\* C36: on every path out of LoadBuildManifest every root handler created
\* during the open is the storage's pRootHandler or has been deleted
C36_NoHandlerLeft ==
    LoadBuildManifestReturned =>
        \A h \in DOMAIN heap : h = storage.pRootHandler \/ ~heap[h].alive

\* ------------------------------------------------------------------------
\* The caller's args after CascOpenStorageEx

ArgPointers == {"szLocalPath", "szCdnHostUrl", "szCodeName", "szRegion"}

\* The args struct is the caller's: a field of it points at a string of the
\* caller (the LocalArgs of CascOpenStorageEx start with NULL in every field
\* and receive only pointers into the copy)
CallerSuppliedArgs == \E f \in ArgPointers : pArgs[f].kind = "caller"

\* C37: CascOpenStorageEx leaves the caller's args struct as it found it:
\* when the call has returned, with success or failure, no field of the
\* caller's pArgs points into the copy of the parameter string, which has
\* been freed
C37_CallerArgsUntouched ==
    (pc = "Returned" /\ CallerSuppliedArgs) =>
        \A f \in ArgPointers : pArgs[f].kind # "copy"

\* ------------------------------------------------------------------------
\* The central table: CKeyArray with the maps CKeyMap and EKeyMap

\* Capacity given to CKeyArray.Create, ENCODING pages and DOWNLOAD entries
\* loaded at most
MaxItems == 7
MaxPages == 2
MaxDownloads == 2

CASC_CE_HAS_CKEY         == "CASC_CE_HAS_CKEY"
CASC_CE_HAS_EKEY         == "CASC_CE_HAS_EKEY"
CASC_CE_HAS_EKEY_PARTIAL == "CASC_CE_HAS_EKEY_PARTIAL"
CASC_CE_IN_ENCODING      == "CASC_CE_IN_ENCODING"
CASC_CE_IN_DOWNLOAD      == "CASC_CE_IN_DOWNLOAD"
CASC_CE_IN_BUILD         == "CASC_CE_IN_BUILD"
CASC_CE_FILE_PATCH       == "CASC_CE_FILE_PATCH"

\* (DWORD)-1
CASC_INVALID_SIZE == -1

\* A 16-byte key is a small number, 0 for sixteen zero bytes.  An encoded key
\* is its first CASC_EKEY_SIZE bytes and the rest
ZeroKey == 0
EKey(first9, rest) == [first9 |-> first9, rest |-> rest]
ZeroEKey == EKey(0, 0)

\* (ULONGLONG)-1
CASC_INVALID_OFFS64 == -1

\* A CASC_CKEY_ENTRY
CKeyEntry(ckey, ekey, flags, csize, esize) ==
    [CKey |-> ckey, EKey |-> ekey, Flags |-> flags, ContentSize |-> csize,
     EncodedSize |-> esize, Priority |-> 0, TagBitMask |-> {},
     StorageOffset |-> CASC_INVALID_OFFS64]

\* An item of the build file for which the file gives no key
NoEntry == CKeyEntry(ZeroKey, ZeroEKey, {}, CASC_INVALID_SIZE, CASC_INVALID_SIZE)

\* CASC_MAP::FindObject on a map that holds the objects "map" (positions in
\* the array, in the order of their insertion) and reads the key inside the
\* object; hits are the places of the map whose object has the key.  Of
\* several objects with the key the map gives the one its insertion kept:
\* the first or the last, by the policy of the map.
FindObject(policy, map, hits) ==
    IF hits = {} THEN 0
    ELSE IF policy = "first"
         THEN map[CHOOSE k \in hits : \A j \in hits : k <= j]
         ELSE map[CHOOSE k \in hits : \A j \in hits : k >= j]

\* CASC_MAP::InsertObject
InsertObject(map, pos) == Append(map, pos)

\* FindCKeyEntry_CKey / FindCKeyEntry_EKey: position in the array, 0 for NULL
FindCKeyEntry_CKey(tab, ckey) ==
    FindObject(tab.policy, tab.CKeyMap,
               {k \in DOMAIN tab.CKeyMap : tab.array[tab.CKeyMap[k]].CKey = ckey})

FindCKeyEntry_EKey(tab, ekey) ==
    FindObject(tab.policy, tab.EKeyMap,
               {k \in DOMAIN tab.EKeyMap :
                    tab.array[tab.EKeyMap[k]].EKey.first9 = ekey.first9})

\* CKeyArray.Insert(1, false): the array may not grow
ArrayFullMutant(tab) == FALSE
ArrayFull(tab) == Len(tab.array) >= tab.capacity

\* "Skip entries without any key"
HasAnyKeyMutant(flags) == TRUE
HasAnyKey(flags) == flags \cap {CASC_CE_HAS_CKEY, CASC_CE_HAS_EKEY} # {}

\* "Supply the size, if unknown yet": the size of the entry afterwards
SupplySizeMutant(old, incoming) == incoming
SupplySize(old, incoming) == IF old = CASC_INVALID_SIZE THEN incoming ELSE old

\* InsertCKeyEntry(hs, CASC_CKEY_ENTRY &): the table afterwards and the
\* position of the entry returned (0 for NULL)
InsertCKeyEntry(tab, e) ==
    IF ~HasAnyKey(e.Flags) THEN [tab |-> tab, pos |-> 0]
    ELSE LET found == FindCKeyEntry_CKey(tab, e.CKey) IN
         IF found = 0
         THEN IF ArrayFull(tab) THEN [tab |-> tab, pos |-> 0]
              ELSE LET pos == Len(tab.array) + 1 IN
                   [tab |-> [tab EXCEPT
                               !.array = Append(@, e),
                               !.CKeyMap = IF CASC_CE_HAS_CKEY \in e.Flags
                                           THEN InsertObject(@, pos) ELSE @,
                               !.EKeyMap = IF CASC_CE_HAS_EKEY \in e.Flags
                                           THEN InsertObject(@, pos) ELSE @],
                    pos |-> pos]
         ELSE LET old == tab.array[found] IN
              [tab |-> [tab EXCEPT
                          !.array[found].ContentSize =
                              SupplySize(old.ContentSize, e.ContentSize),
                          !.array[found].EncodedSize =
                              SupplySize(old.EncodedSize, e.EncodedSize)],
               pos |-> found]

\* A DWORD is kept as the signed number with the same 32 bits, so that
\* 0xFFFFFFFF (CASC_INVALID_SIZE) is -1
ByteSigned(b) == IF b >= 128 THEN b - 256 ELSE b

\* Four bytes, most significant first, as a DWORD
ConvertBytesToInteger_4(b) ==
    ((ByteSigned(b[1]) * 256 + b[2]) * 256 + b[3]) * 256 + b[4]

\* Two bytes, most significant first
ConvertBytesToInteger_2(b) == b[1] * 256 + b[2]

\* Five bytes, most significant first, as a ULONGLONG: the top byte and the
\* DWORD of the low 32 bits
ConvertBytesToInteger_5(b) ==
    [hi |-> b[1], lo |-> ConvertBytesToInteger_4(<<b[2], b[3], b[4], b[5]>>)]

\* (DWORD)DlEntry.EncodedSize: the low 32 bits
DWORDOf(v) == v.lo

\* InsertCKeyEntry(hs, PFILE_CKEY_ENTRY): an entry from ENCODING
InsertCKeyEntry_Encoding(tab, rec) ==
    IF ArrayFull(tab) THEN [tab |-> tab, pos |-> 0]
    ELSE LET pos == Len(tab.array) + 1
             e == CKeyEntry(rec.CKey, rec.EKey,
                            {CASC_CE_HAS_CKEY, CASC_CE_HAS_EKEY, CASC_CE_IN_ENCODING},
                            ConvertBytesToInteger_4(rec.ContentSize), CASC_INVALID_SIZE)
         IN [tab |-> [tab EXCEPT !.array = Append(@, e),
                                 !.CKeyMap = InsertObject(@, pos),
                                 !.EKeyMap = InsertObject(@, pos)],
             pos |-> pos]

\* InsertCKeyEntry(hs, CASC_DOWNLOAD_ENTRY &): an entry from DOWNLOAD
InsertCKeyEntry_Download(tab, dl) ==
    LET found == FindCKeyEntry_EKey(tab, dl.EKey) IN
    IF found = 0
    THEN IF ArrayFull(tab) THEN [tab |-> tab, pos |-> 0]
         ELSE LET pos == Len(tab.array) + 1
                  e == [CKeyEntry(ZeroKey, dl.EKey, {CASC_CE_HAS_EKEY, CASC_CE_IN_DOWNLOAD},
                                  CASC_INVALID_SIZE, DWORDOf(dl.EncodedSize))
                          EXCEPT !.Priority = dl.Priority]
              IN [tab |-> [tab EXCEPT !.array = Append(@, e),
                                      !.EKeyMap = InsertObject(@, pos)],
                  pos |-> pos]
    ELSE LET old == tab.array[found] IN
         [tab |-> [tab EXCEPT
                     !.array[found].EKey =
                         IF CASC_CE_HAS_EKEY_PARTIAL \in old.Flags THEN dl.EKey ELSE @,
                     !.array[found].EncodedSize =
                         SupplySize(old.EncodedSize, DWORDOf(dl.EncodedSize)),
                     !.array[found].Flags =
                         (@ \ {CASC_CE_HAS_EKEY_PARTIAL}) \cup {CASC_CE_IN_DOWNLOAD},
                     !.array[found].Priority = dl.Priority],
          pos |-> found]

\* CopyBuildFileItemsToCKeyArray: DownloadCKey, InstallCKey, PatchFile,
\* RootFile, SizeFile, VfsRoot and the VFS roots, in this order
RECURSIVE CopyBuildFileItemsToCKeyArray(_, _)
CopyBuildFileItemsToCKeyArray(tab, items) ==
    IF items = <<>> THEN tab
    ELSE CopyBuildFileItemsToCKeyArray(InsertCKeyEntry(tab, items[1]).tab, Tail(items))

\* LoadEncodingCKeyPage: the records of a page up to the first one with
\* EKeyCount == 0
RECURSIVE LoadEncodingCKeyPage(_, _)
LoadEncodingCKeyPage(tab, page) ==
    IF page = <<>> THEN tab
    ELSE IF page[1].EKeyCount = 0 THEN tab
    ELSE LoadEncodingCKeyPage(InsertCKeyEntry_Encoding(tab, page[1]).tab, Tail(page))

\* InsertWellKnownFile: the table afterwards. hs->pRootHandler->Insert is
\* kept as the pair of the name and the position of the entry in "names"
InsertWellKnownFile(tab, szFileName, fake, dwFlags, online) ==
    LET found == IF CASC_CE_HAS_CKEY \in fake.Flags
                 THEN FindCKeyEntry_CKey(tab, fake.CKey) ELSE 0
        mark(tb, pos) ==
            [tb EXCEPT !.names = @ \cup {[name |-> szFileName, pos |-> pos]},
                       !.array[pos].Flags = @ \cup dwFlags \cup {CASC_CE_IN_BUILD}]
    IN IF found # 0 THEN mark(tab, found)
       ELSE IF CASC_CE_FILE_PATCH \in dwFlags /\ online
            THEN LET r == InsertCKeyEntry(tab, fake)
                 IN IF r.pos # 0 THEN mark(r.tab, r.pos) ELSE r.tab
            ELSE tab

\* Records of ENCODING: the second and the third differ in the CKey and
\* share the first 9 bytes of the EKey; one page ends at a record with no
\* EKey; the last two records carry content sizes with the top bit set
FileCKeyEntry(ckey, ekey, count) ==
    [CKey |-> ckey, EKey |-> ekey, ContentSize |-> <<0, 0, 0, 5>>, EKeyCount |-> count]

EncodingPages ==
    { <<FileCKeyEntry(2, EKey(2, 1), 1)>>,
      <<FileCKeyEntry(2, EKey(2, 1), 1), FileCKeyEntry(3, EKey(2, 2), 1)>>,
      <<FileCKeyEntry(1, EKey(1, 1), 1), FileCKeyEntry(0, ZeroEKey, 0),
        FileCKeyEntry(3, EKey(3, 1), 1)>>,
      <<FileCKeyEntry(3, EKey(3, 1), 2)>>,
      <<[FileCKeyEntry(4, EKey(4, 2), 1) EXCEPT !.ContentSize = <<255, 255, 255, 255>>]>>,
      <<[FileCKeyEntry(5, EKey(5, 2), 1) EXCEPT !.ContentSize = <<128, 0, 1, 0>>]>> }

\* hs->EncodingCKey as the build file and the index gave it
EncodingCKey ==
    CKeyEntry(1, EKey(1, 1), {CASC_CE_HAS_CKEY, CASC_CE_HAS_EKEY}, 5, 6)

\* Items of the build file: DownloadCKey, InstallCKey, PatchFile, RootFile,
\* SizeFile, VfsRoot
BuildItems(download, install, patch, rootfile) ==
    <<download, install, patch, rootfile, NoEntry, NoEntry>>

BuildInputs ==
    { BuildItems(CKeyEntry(2, EKey(2, 1), {CASC_CE_HAS_CKEY, CASC_CE_HAS_EKEY}, 5, 6),
                 NoEntry, NoEntry, NoEntry),
      BuildItems(CKeyEntry(2, EKey(2, 1), {CASC_CE_HAS_CKEY, CASC_CE_HAS_EKEY}, 5, 6),
                 NoEntry,
                 CKeyEntry(ZeroKey, EKey(3, 1), {CASC_CE_HAS_EKEY}, CASC_INVALID_SIZE, 6),
                 CKeyEntry(3, ZeroEKey, {CASC_CE_HAS_CKEY}, 5, CASC_INVALID_SIZE)),
      BuildItems(NoEntry,
                 CKeyEntry(4, EKey(4, 1), {CASC_CE_HAS_CKEY, CASC_CE_HAS_EKEY}, 5, 6),
                 CKeyEntry(5, EKey(5, 1), {CASC_CE_HAS_CKEY, CASC_CE_HAS_EKEY}, 5, 6),
                 NoEntry) }

DownloadEntries ==
    { [EKey |-> EKey(2, 1), EncodedSize |-> ConvertBytesToInteger_5(<<0, 0, 0, 0, 7>>),
       Priority |-> 1],
      [EKey |-> EKey(2, 3), EncodedSize |-> ConvertBytesToInteger_5(<<0, 0, 0, 0, 7>>),
       Priority |-> 0],
      [EKey |-> EKey(6, 1), EncodedSize |-> ConvertBytesToInteger_5(<<1, 0, 0, 0, 7>>),
       Priority |-> 2] }

\* The three parts of the table
TableOf(tab) == [array |-> tab.array, CKeyMap |-> tab.CKeyMap, EKeyMap |-> tab.EKeyMap]

InitTable ==
    /\ NoOpenRunning
    /\ \E policy \in {"first", "last"}, online \in BOOLEAN, build \in BuildInputs :
         central = [phase |-> "self", array |-> <<>>, CKeyMap |-> <<>>, EKeyMap |-> <<>>,
                    capacity |-> MaxItems, policy |-> policy, online |-> online,
                    build |-> build, base |-> <<>>, loaded |-> <<>>, downloads |-> 0,
                    TotalFiles |-> 0, visited |-> <<>>, err |-> ERROR_SUCCESS,
                    result |-> None, names |-> {}, origin |-> <<>>]
    /\ Unused(<<"peer", "info", "query", "parts">>)

Unchanged_Table ==
    UNCHANGED <<pc, szParams, pArgs, bOnlineStorage, szParamsCopy, dwErrCode, lastError,
                phStorage, retval, hs, storage, heap, socketsCaching, trace, callbacks,
                BuildFile, root, ub, owned, peer, info, query, parts>>

\* Parts array, CKeyMap and EKeyMap of "central" replaced by those of tab
WithTable(tab) ==
    [central EXCEPT !.array = tab.array, !.CKeyMap = tab.CKeyMap, !.EKeyMap = tab.EKeyMap]

\* Which loader created each entry: the entries that tab has beyond those
\* known so far were created by "loader"
Origin(tab, loader) ==
    [i \in DOMAIN tab.array |->
        IF i <= Len(central.origin) THEN central.origin[i] ELSE loader]

\* LoadEncodingManifest: "InsertCKeyEntry(hs, CKeyEntry)" for ENCODING itself
TableSelf ==
    /\ central.phase = "self"
    /\ LET tab == InsertCKeyEntry(central, EncodingCKey).tab IN
       central' = [WithTable(tab) EXCEPT !.phase = "encoding", !.base = TableOf(tab),
                                         !.origin = Origin(tab, "build")]
    /\ Unchanged_Table

\* memcmp(((PFILE_CKEY_ENTRY)pbCKeyPage)->CKey, pPageHeader[i].FirstKey) == 0
FirstKeyMatchesMutant(page, FirstKey) == TRUE
FirstKeyMatches(page, FirstKey) == page[1].CKey = FirstKey

\* One turn of the page loop of LoadEncodingManifest: the first-key check,
\* then LoadEncodingCKeyPage; a mismatch ends the loop with ERROR_FILE_CORRUPT.
\* The page descriptor names the page's first CKey or 9, a key of no record
TablePage ==
    /\ central.phase = "encoding"
    /\ Len(central.loaded) < MaxPages
    /\ \E page \in EncodingPages : \E FirstKey \in {page[1].CKey, 9} :
         LET seen == Append(central.visited, [FirstKey |-> FirstKey, CKey |-> page[1].CKey]) IN
         IF FirstKeyMatches(page, FirstKey)
         THEN LET tab == LoadEncodingCKeyPage(central, page) IN
              central' = [WithTable(tab)
                            EXCEPT !.loaded = Append(@, page), !.visited = seen,
                                   !.origin = Origin(tab, "encoding")]
         ELSE central' = [central EXCEPT !.phase = "failed", !.visited = seen,
                                         !.err = ERROR_FILE_CORRUPT]
    /\ Unchanged_Table

\* LoadEncodingManifest has returned an error: LoadCascStorage skips every
\* later phase and CascOpenStorageEx releases the storage, sets the last
\* error and returns false
TableOpenFails ==
    /\ central.phase = "failed"
    /\ central' = [central EXCEPT !.phase = "released",
                                  !.result = [retval |-> "false", lastError |-> central.err]]
    /\ Unchanged_Table

\* The end of LoadEncodingManifest: CopyBuildFileItemsToCKeyArray
TableBuildItems ==
    /\ central.phase = "encoding"
    /\ LET tab == CopyBuildFileItemsToCKeyArray(central, central.build) IN
       central' = [WithTable(tab) EXCEPT !.phase = "download",
                                         !.origin = Origin(tab, "build")]
    /\ Unchanged_Table

\* One entry of DOWNLOAD goes through InsertCKeyEntry
TableDownload ==
    /\ central.phase = "download"
    /\ central.downloads < MaxDownloads
    /\ \E dl \in DownloadEntries :
         LET tab == InsertCKeyEntry_Download(central, dl).tab IN
         central' = [WithTable(tab) EXCEPT !.downloads = @ + 1,
                                           !.origin = Origin(tab, "download")]
    /\ Unchanged_Table

\* The InsertWellKnownFile calls of LoadCascStorage
TableWellKnown ==
    /\ central.phase = "download"
    /\ LET b == central.build
           t1 == InsertWellKnownFile(central, "ENCODING", EncodingCKey, {}, central.online)
           t2 == InsertWellKnownFile(t1, "DOWNLOAD", b[1], {}, central.online)
           t3 == InsertWellKnownFile(t2, "INSTALL", b[2], {}, central.online)
           t4 == InsertWellKnownFile(t3, "PATCH", b[3], {CASC_CE_FILE_PATCH}, central.online)
           t5 == InsertWellKnownFile(t4, "ROOT", b[4], {}, central.online)
           t6 == InsertWellKnownFile(t5, "SIZE", b[5], {}, central.online)
       IN central' = [WithTable(t6) EXCEPT !.phase = "done", !.names = t6.names,
                                           !.origin = Origin(t6, "build")]
    /\ Unchanged_Table

\* After the open: CascGetStorageInfo(CascStorageTotalFileCount) walks the
\* array; every entry is a file without a name reference
TableQuery ==
    /\ central.phase = "done"
    /\ LET files == [i \in DOMAIN central.array |-> FileItem(TRUE, 0)] IN
       central' = [central EXCEPT !.TotalFiles =
                      IF @ = 0 THEN GetStorageTotalFileCount(files) ELSE @]
    /\ Unchanged_Table

NextTable ==
    \/ TableSelf
    \/ TablePage
    \/ TableBuildItems
    \/ TableDownload
    \/ TableWellKnown
    \/ TableQuery
    \/ TableOpenFails

SpecTable == InitTable /\ [][NextTable]_vars

Entries == DOMAIN central.array

\* C17: every entry with HAS_CKEY is the entry that the CKey map returns for
\* its content key.
C17_CKeyMapFindsEntry ==
    \A i \in Entries :
        CASC_CE_HAS_CKEY \in central.array[i].Flags =>
            FindCKeyEntry_CKey(central, central.array[i].CKey) = i

\* C18: every entry with HAS_EKEY or HAS_EKEY_PARTIAL is the entry that the
\* EKey map returns for the first 9 bytes of its encoded key.
C18_EKeyMapFindsEntry ==
    \A i \in Entries :
        central.array[i].Flags \cap {CASC_CE_HAS_EKEY, CASC_CE_HAS_EKEY_PARTIAL} # {} =>
            FindCKeyEntry_EKey(central, central.array[i].EKey) = i

\* C19: every entry of the central array has HAS_CKEY or HAS_EKEY.
C19_EveryEntryHasKey ==
    \A i \in Entries :
        central.array[i].Flags \cap {CASC_CE_HAS_CKEY, CASC_CE_HAS_EKEY} # {}

\* An item without a key was offered to the table, and a DOWNLOAD entry has
\* updated an entry that ENCODING created
C19_Witness ==
    /\ central.phase = "done"
    /\ \E k \in DOMAIN central.build : central.build[k] = NoEntry
    /\ \E i \in Entries :
          {CASC_CE_IN_ENCODING, CASC_CE_IN_DOWNLOAD, CASC_CE_HAS_EKEY} \subseteq central.array[i].Flags

\* The entries that ENCODING records created
FromEncoding(array) ==
    SelectSeq(array, LAMBDA e : CASC_CE_IN_ENCODING \in e.Flags)

\* C20: when the same page has been loaded twice, the array holds the entries
\* that loading the page once gives, and no two entries made from ENCODING
\* records have the same CKey.
C20_PageLoadIdempotent ==
    /\ (Len(central.loaded) = 2 /\ central.loaded[1] = central.loaded[2]) =>
          FromEncoding(central.array) =
             FromEncoding(LoadEncodingCKeyPage(
                 [central EXCEPT !.array = central.base.array,
                                 !.CKeyMap = central.base.CKeyMap,
                                 !.EKeyMap = central.base.EKeyMap],
                 central.loaded[1]).array)
    /\ \A i, j \in Entries :
          (i # j /\ CASC_CE_IN_ENCODING \in central.array[i].Flags
                 /\ CASC_CE_IN_ENCODING \in central.array[j].Flags) =>
             central.array[i].CKey # central.array[j].CKey

\* C21: the capacity of the central array never changes and is never
\* exceeded; a step keeps every entry at its position and can only append;
\* once the open has returned nothing is appended.
C21_AppendOnly ==
    [][ /\ central'.capacity = central.capacity
        /\ Len(central'.array) <= central'.capacity
        /\ Len(central'.array) >= Len(central.array)
        /\ \A i \in DOMAIN central.array :
              /\ central'.array[i].CKey = central.array[i].CKey
              /\ central'.array[i].EKey.first9 = central.array[i].EKey.first9
        /\ central.phase = "done" => central'.array = central.array ]_vars

\* The array was filled to its capacity during the load, and the total file
\* count has been asked after the open
C21_Witness ==
    /\ central.phase = "done"
    /\ Len(central.array) = central.capacity
    /\ central.TotalFiles = central.capacity

\* C22: every entry that came from an ENCODING record has the flags
\* HAS_CKEY, HAS_EKEY and IN_ENCODING and a content size other than
\* CASC_INVALID_SIZE, whatever four bytes the record carried.
C22_EncodingEntrySized ==
    \A i \in Entries :
        CASC_CE_IN_ENCODING \in central.array[i].Flags =>
            /\ {CASC_CE_HAS_CKEY, CASC_CE_HAS_EKEY} \subseteq central.array[i].Flags
            /\ central.array[i].ContentSize # CASC_INVALID_SIZE

\* The table after the CKey pages "pages" were loaded into tab in turn
RECURSIVE LoadPages(_, _)
LoadPages(tab, pages) ==
    IF pages = <<>> THEN tab
    ELSE LoadPages(LoadEncodingCKeyPage(tab, Head(pages)), Tail(pages))

\* C27: when the first record of a CKey page does not carry the first key of
\* its page descriptor, the load ends there with ERROR_FILE_CORRUPT: the
\* table holds the ENCODING self-entry and the records of the earlier pages
\* only, the build-file items are not copied, and the open returns false
\* with that code.
C27_FirstKeyMismatchFatal ==
    \A i \in DOMAIN central.visited :
        central.visited[i].CKey # central.visited[i].FirstKey =>
            /\ i = Len(central.visited)
            /\ central.err = ERROR_FILE_CORRUPT
            /\ central.phase \in {"failed", "released"}
            /\ Len(central.loaded) = i - 1
            /\ TableOf(central) = TableOf(LoadPages(WithTable(central.base), central.loaded))
            /\ \A k \in Entries : CASC_CE_IN_DOWNLOAD \notin central.array[k].Flags
            /\ central.phase = "released" =>
                  central.result = [retval |-> "false", lastError |-> ERROR_FILE_CORRUPT]

\* The second page had the wrong first key and the open has failed
C27_Witness ==
    /\ central.phase = "released"
    /\ Len(central.visited) = 2
    /\ central.visited[2].CKey # central.visited[2].FirstKey
    /\ Len(central.array) > 1

\* The well-known files of the build descriptor with their names
WellKnownFiles ==
    { [name |-> "ENCODING", item |-> EncodingCKey, flags |-> {}],
      [name |-> "DOWNLOAD", item |-> central.build[1], flags |-> {}],
      [name |-> "INSTALL", item |-> central.build[2], flags |-> {}],
      [name |-> "PATCH", item |-> central.build[3], flags |-> {CASC_CE_FILE_PATCH}],
      [name |-> "ROOT", item |-> central.build[4], flags |-> {}],
      [name |-> "SIZE", item |-> central.build[5], flags |-> {}] }

\* The entry at pos is the entry of the build descriptor's item
IsEntryOf(pos, item) ==
    IF CASC_CE_HAS_CKEY \in item.Flags
    THEN central.array[pos].CKey = item.CKey
    ELSE central.array[pos].EKey.first9 = item.EKey.first9

\* C28: after a successful open whose array had room, every well-known file
\* that the build descriptor gives a CKey or an EKey for has its name in the
\* root handler, bound to the file's entry, and that entry carries IN_BUILD
\* (and FILE_PATCH for PATCH).
C28_WellKnownNamed ==
    (central.phase = "done" /\ Len(central.array) < central.capacity) =>
        \A f \in WellKnownFiles :
            HasAnyKey(f.item.Flags) =>
                \E n \in central.names :
                    /\ n.name = f.name
                    /\ IsEntryOf(n.pos, f.item)
                    /\ {CASC_CE_IN_BUILD} \cup f.flags \subseteq central.array[n.pos].Flags

\* C29: in the central array the entries created from ENCODING records come
\* first, then the entries created by DOWNLOAD, then the entries created for
\* the files of the build descriptor.
C29_InsertionOrder ==
    \A i, j \in Entries :
        i < j =>
            /\ ~(central.origin[i] # "encoding" /\ central.origin[j] = "encoding")
            /\ ~(central.origin[i] = "build" /\ central.origin[j] = "download")

\* ------------------------------------------------------------------------
\* The DOWNLOAD manifest, byte by byte.  "data" is the sequence of the bytes
\* that follow the header of the file; a pointer is the number of bytes in
\* front of it, so pbEntries is 0 and pbFileEnd is Len(data).

MD5_HASH_SIZE == 16
CASC_EKEY_SIZE == 9
CASC_FEATURE_TAGS == "CASC_FEATURE_TAGS"

\* Capacity of the array in the loads of DOWNLOAD
DlCapacity == 40

\* CaptureDownloadHeader: the fields of the file header as they are captured
CaptureDownloadHeaderFields(file) ==
    IF file.Version > 3 \/ file.EKeyLength > MD5_HASH_SIZE
    THEN [err |-> ERROR_BAD_FORMAT]
    ELSE [err |-> ERROR_SUCCESS,
          EKeyLength |-> file.EKeyLength,
          EntryHasChecksum |-> file.EntryHasChecksum,
          EntryCount |-> file.EntryCount,
          TagCount |-> file.TagCount,
          FlagByteSize |-> IF file.Version >= 2 THEN file.FlagByteSize ELSE 0,
          EntryLength |-> file.EKeyLength + 5 + 1
                          + (IF file.EntryHasChecksum THEN 4 ELSE 0)
                          + (IF file.Version >= 2 THEN file.FlagByteSize ELSE 0)]

GetTagBitmapLength(pbFilePtr, pbFileEnd, EntryCount) ==
    LET nBitmapLength == (EntryCount \div 8) + (IF EntryCount % 8 # 0 THEN 1 ELSE 0) IN
    IF pbFilePtr + nBitmapLength > pbFileEnd THEN pbFileEnd - pbFilePtr ELSE nBitmapLength

\* "Skip the tag string": the pointer to the NUL or to the end of the file
RECURSIVE SkipTagName(_, _)
SkipTagName(data, pbFilePtr) ==
    IF pbFilePtr < Len(data) /\ data[pbFilePtr + 1] # 0
    THEN SkipTagName(data, pbFilePtr + 1)
    ELSE pbFilePtr

\* A CASC_TAG_ENTRY1 after the memset
ZeroTag ==
    [szTagName |-> 0, NameLength |-> 0, TagValue |-> 0, Bitmap |-> 0,
     BitmapLength |-> 0, TagLength |-> 0]

\* CaptureDownloadTag: the code returned and DlTag as the call leaves it
CaptureDownloadTag(DlHeader, data, pbSaveFilePtr) ==
    LET pbFileEnd == Len(data)
        pbNul == SkipTagName(data, pbSaveFilePtr)
        named == [ZeroTag EXCEPT !.szTagName = pbSaveFilePtr]
    IN IF pbNul >= pbFileEnd THEN [err |-> ERROR_BAD_FORMAT, tag |-> named]
       ELSE LET sized == [named EXCEPT !.NameLength = pbNul - pbSaveFilePtr]
                pbValue == pbNul + 1
            IN IF pbValue + SizeofDWORD > pbFileEnd
               THEN [err |-> ERROR_BAD_FORMAT, tag |-> sized]
               ELSE LET pbBitmap == pbValue + 2
                        len == GetTagBitmapLength(pbBitmap, pbFileEnd, DlHeader.EntryCount)
                    IN [err |-> ERROR_SUCCESS,
                        tag |-> [sized EXCEPT
                                   !.TagValue = ConvertBytesToInteger_2(
                                                   <<data[pbValue + 1], data[pbValue + 2]>>),
                                   !.Bitmap = pbBitmap,
                                   !.BitmapLength = len,
                                   !.TagLength = (pbBitmap - pbSaveFilePtr) + len]]

\* The CASC_TAG_ENTRY2 made of a CASC_TAG_ENTRY1
TagEntry2(data, tag) ==
    [szTagName |-> SubSeq(data, tag.szTagName + 1, tag.szTagName + tag.NameLength),
     NameLength |-> tag.NameLength, TagValue |-> tag.TagValue]

\* The 16 bytes of DlEntry.EKey as an encoded key
EKeyOfBytes(bytes) ==
    LET key == [k \in 1..MD5_HASH_SIZE |-> IF k <= Len(bytes) THEN bytes[k] ELSE 0]
    IN EKey(SubSeq(key, 1, CASC_EKEY_SIZE), SubSeq(key, CASC_EKEY_SIZE + 1, MD5_HASH_SIZE))

\* CaptureDownloadEntry
CaptureDownloadEntry(DlHeader, data, pbFilePtr) ==
    IF pbFilePtr + DlHeader.EntryLength >= Len(data)
    THEN [err |-> ERROR_BAD_FORMAT]
    ELSE LET pbSize == pbFilePtr + DlHeader.EKeyLength IN
         [err |-> ERROR_SUCCESS,
          EKey |-> EKeyOfBytes(SubSeq(data, pbFilePtr + 1, pbSize)),
          EncodedSize |-> ConvertBytesToInteger_5(SubSeq(data, pbSize + 1, pbSize + 5)),
          Priority |-> data[pbSize + 6]]

\* ULONGLONG TagBit: the place of its only bit, or TagBitWidth when the bit
\* has been shifted out and the value is 0
TagBitWidth == 64

\* TagBit <<= 1
ShiftLeftMutant(TagBit) == (TagBit + 1) % TagBitWidth
ShiftLeft(TagBit) == IF TagBit + 1 >= TagBitWidth THEN TagBitWidth ELSE TagBit + 1

\* TagBitMask |= TagBit
OrTagBit(TagBitMask, TagBit) ==
    IF TagBit < TagBitWidth THEN TagBitMask \cup {TagBit} ELSE TagBitMask

\* Bitmap[BitMaskOffset] & (0x80 >> (i % 8))
BitMaskBitSet(byte, i) == (byte \div (2 ^ (7 - (i % 8)))) % 2 = 1

\* "Supply the tag bits", one turn of the loop: the mask of the entry with
\* index i after the tag has been looked at with the running TagBit
SupplyTagBit(TagBitMask, tag, data, i, TagBit) ==
    LET BitMaskOffset == i \div 8 IN
    IF /\ BitMaskOffset < tag.BitmapLength
       /\ BitMaskBitSet(data[tag.Bitmap + BitMaskOffset + 1], i)
    THEN OrTagBit(TagBitMask, TagBit)
    ELSE TagBitMask

\* A DOWNLOAD file as its author wrote it: the header fields, the entries
\* (EKey bytes, the five bytes of the encoded size, the priority), the tags
\* (name, the two bytes of the value, the bitmap) and the number of bytes
\* that the end of the file lacks
DlFileEntry(ekey, size, priority) ==
    [EKey |-> ekey, EncodedSize |-> size, Priority |-> priority]

DlFileTag(name, value, bitmap) == [szTagName |-> name, TagValue |-> value, Bitmap |-> bitmap]

DlFile(version, ekeyLength, hasChecksum, flagByteSize, entries, tags, cut) ==
    [Version |-> version, EKeyLength |-> ekeyLength, EntryHasChecksum |-> hasChecksum,
     FlagByteSize |-> flagByteSize, EntryCount |-> Len(entries), TagCount |-> Len(tags),
     entries |-> entries, tags |-> tags, cut |-> cut]

EntryBytes(file, e) ==
    e.EKey \o e.EncodedSize \o <<e.Priority>>
      \o (IF file.EntryHasChecksum THEN <<0, 0, 0, 0>> ELSE <<>>)
      \o [k \in 1..(IF file.Version >= 2 THEN file.FlagByteSize ELSE 0) |-> 0]

TagBytes(tag) == tag.szTagName \o <<0>> \o tag.TagValue \o tag.Bitmap

RECURSIVE Flatten(_)
Flatten(seqs) == IF seqs = <<>> THEN <<>> ELSE Head(seqs) \o Flatten(Tail(seqs))

\* The bytes of the file after its header
DataOf(file) ==
    LET all == Flatten([k \in DOMAIN file.entries |-> EntryBytes(file, file.entries[k])])
               \o Flatten([k \in DOMAIN file.tags |-> TagBytes(file.tags[k])])
    IN SubSeq(all, 1, Len(all) - file.cut)

\* Entry with the one-byte EKey k; the entry with nine bytes 0xBB
SmallEntry(k) == DlFileEntry(<<k>>, <<0, 0, 0, 0, 7>>, k)
EntryBB == DlFileEntry([k \in 1..CASC_EKEY_SIZE |-> 187], <<0, 0, 0, 2, 0>>, 3)

\* "mac" and "enUS"
NameMac == <<109, 97, 99>>
NameEnUS == <<101, 110, 85, 83>>

TwoTags(bitmap1, bitmap2) ==
    <<DlFileTag(NameMac, <<0, 1>>, bitmap1), DlFileTag(NameEnUS, <<0, 2>>, bitmap2)>>

\* 66 tags: tag 1 and tag 64 hold entry 0, tag 63 holds entry 1
ManyTags ==
    [j \in 1..66 |->
        DlFileTag(<<97 + (j % 26)>>, <<0, j>>,
                  <<IF j \in {2, 65} THEN 128 ELSE IF j = 64 THEN 64 ELSE 0>>)]

DownloadFiles ==
    { DlFile(3, 9, FALSE, 1, <<EntryBB>>, TwoTags(<<128>>, <<128>>), 0),
      DlFile(3, 9, FALSE, 1, <<EntryBB>>, TwoTags(<<128>>, <<128>>), 1),
      DlFile(1, 1, TRUE, 0, <<SmallEntry(1), SmallEntry(2)>>, <<>>, 0),
      DlFile(1, 1, FALSE, 0, [k \in 1..9 |-> SmallEntry(k)],
             TwoTags(<<128, 128>>, <<64, 128>>), 0),
      DlFile(1, 1, FALSE, 0, [k \in 1..9 |-> SmallEntry(k)],
             TwoTags(<<128, 128>>, <<64, 128>>), 1),
      DlFile(1, 1, FALSE, 0, [k \in 1..17 |-> SmallEntry(k)],
             TwoTags(<<128, 0, 128>>, <<1, 128, 128>>), 1),
      DlFile(2, 1, FALSE, 1,
             <<DlFileEntry(<<1>>, <<0, 255, 255, 255, 255>>, 1),
               DlFileEntry(<<5>>, <<1, 255, 255, 255, 255>>, 2), SmallEntry(6)>>,
             TwoTags(<<160>>, <<64>>) \o TwoTags(<<0>>, <<0>>), 0),
      DlFile(1, 1, FALSE, 0, <<SmallEntry(1), SmallEntry(2)>>, ManyTags, 0),
      DlFile(1, 1, FALSE, 0, <<SmallEntry(1), SmallEntry(1)>>,
             TwoTags(<<128>>, <<64>>) \o TwoTags(<<0>>, <<0>>), 0),
      DlFile(1, MD5_HASH_SIZE, FALSE, 0,
             <<DlFileEntry([k \in 1..MD5_HASH_SIZE |-> 170], <<0, 0, 0, 0, 7>>, 1),
               DlFileEntry([k \in 1..MD5_HASH_SIZE |-> 187], <<0, 0, 0, 0, 7>>, 1)>>,
             TwoTags(<<128>>, <<64>>), 0) }

\* The table before DOWNLOAD: empty, or with two entries of ENCODING, the
\* one with the EKey 0xBB.. of unknown encoded size
EncodingEntry(ckey, bytes, esize) ==
    CKeyEntry(ckey, EKeyOfBytes(bytes),
              {CASC_CE_HAS_CKEY, CASC_CE_HAS_EKEY, CASC_CE_IN_ENCODING}, 5, esize)

DownloadTables ==
    { [array |-> <<>>, CKeyMap |-> <<>>, EKeyMap |-> <<>>],
      [array |-> <<EncodingEntry(1, [k \in 1..CASC_EKEY_SIZE |-> 187], CASC_INVALID_SIZE),
                   EncodingEntry(2, <<1>>, 6)>>,
       CKeyMap |-> <<1, 2>>, EKeyMap |-> <<1, 2>>] }

InitDownload ==
    /\ NoOpenRunning
    /\ \E policy \in {"first", "last"}, file \in DownloadFiles, table \in DownloadTables :
         central = [phase |-> "tags", array |-> table.array, CKeyMap |-> table.CKeyMap,
                    EKeyMap |-> table.EKeyMap, capacity |-> DlCapacity, policy |-> policy,
                    file |-> file, data |-> DataOf(file),
                    DlHeader |-> CaptureDownloadHeaderFields(file),
                    TagArray |-> <<>>, TagsArray |-> <<>>, dwFeatures |-> {},
                    pbTag |-> CaptureDownloadHeaderFields(file).EntryLength * file.EntryCount,
                    i |-> 0, pbEntry |-> 0, pCKeyEntry |-> 0, j |-> 0, TagBit |-> 0,
                    upserted |-> <<>>, TotalFiles |-> 0,
                    dwErrCode |-> ERROR_SUCCESS]
    /\ Unused(<<"peer", "info", "query", "parts">>)

\* LoadDownloadManifest(hs, DlHeader, pbFileData, pbFileEnd), one turn of
\* the first loop: the next tag is captured into TagArray; the result of
\* CaptureDownloadTag counts for the longest name only
DownloadTag ==
    /\ central.phase = "tags"
    /\ Len(central.TagArray) < central.DlHeader.TagCount
    /\ LET tag == CaptureDownloadTag(central.DlHeader, central.data, central.pbTag).tag IN
       central' = [central EXCEPT !.TagArray = Append(@, tag),
                                  !.pbTag = @ + tag.TagLength]
    /\ Unchanged_Table

\* The tags move from TagArray into hs->TagsArray
DownloadTagsArray ==
    /\ central.phase = "tags"
    /\ Len(central.TagArray) = central.DlHeader.TagCount
    /\ central' = [central EXCEPT
                     !.phase = "entries",
                     !.dwFeatures = IF central.DlHeader.TagCount # 0
                                    THEN @ \cup {CASC_FEATURE_TAGS} ELSE @,
                     !.TagsArray = [k \in DOMAIN central.TagArray |->
                                       TagEntry2(central.data, central.TagArray[k])]]
    /\ Unchanged_Table

\* One turn of the loop over the entries: the entry is captured and put
\* into the table; TagBit = 1
DownloadEntry ==
    /\ central.phase = "entries"
    /\ central.i < central.DlHeader.EntryCount
    /\ LET dl == CaptureDownloadEntry(central.DlHeader, central.data, central.pbEntry) IN
       IF dl.err # ERROR_SUCCESS
       THEN central' = [central EXCEPT !.phase = "break"]
       ELSE LET r == InsertCKeyEntry_Download(central, dl) IN
            central' = [r.tab EXCEPT !.phase = "bits", !.pCKeyEntry = r.pos,
                                     !.j = 0, !.TagBit = 0,
                                     !.upserted = Append(@, r.pos)]
    /\ Unchanged_Table

\* The entry is in the table and there is a TagArray
TagBitsWanted == central.pCKeyEntry # 0 /\ central.DlHeader.TagCount # 0

\* One turn of the loop over the tags
DownloadTagBit ==
    /\ central.phase = "bits"
    /\ TagBitsWanted
    /\ central.j < Len(central.TagsArray)
    /\ central' = [central EXCEPT
                     !.array[central.pCKeyEntry].TagBitMask =
                         SupplyTagBit(@, central.TagArray[central.j + 1], central.data,
                                      central.i, central.TagBit),
                     !.TagBit = ShiftLeft(@),
                     !.j = @ + 1]
    /\ Unchanged_Table

\* "Move to the next entry"
DownloadNextEntry ==
    /\ central.phase = "bits"
    /\ TagBitsWanted => central.j = Len(central.TagsArray)
    /\ central' = [central EXCEPT !.phase = "entries", !.i = @ + 1,
                                  !.pbEntry = @ + central.DlHeader.EntryLength]
    /\ Unchanged_Table

\* After the loop: "Remember the total file count"
DownloadFinish ==
    /\ \/ central.phase = "break"
       \/ central.phase = "entries" /\ central.i = central.DlHeader.EntryCount
    /\ central' = [central EXCEPT !.phase = "done", !.TotalFiles = Len(central.array)]
    /\ Unchanged_Table

NextDownload ==
    \/ DownloadTag
    \/ DownloadTagsArray
    \/ DownloadEntry
    \/ DownloadTagBit
    \/ DownloadNextEntry
    \/ DownloadFinish

SpecDownload == InitDownload /\ [][NextDownload]_vars

\* What the file says, to compare the load with

\* The load of DOWNLOAD has ended
DownloadDone == central.phase = "done"

\* The entries of the file by their index 0 .. EntryCount - 1
EntryIndexes == 0..(central.file.EntryCount - 1)

\* The EKey of the entry with index k is the EKey of no other entry
EKeyOnce(k) ==
    \A m \in EntryIndexes :
        central.file.entries[m + 1].EKey = central.file.entries[k + 1].EKey => m = k

\* The complete bitmap of the tag with index t has the bit of the entry k
FileBit(t, k) == BitMaskBitSet(central.file.tags[t + 1].Bitmap[(k \div 8) + 1], k)

\* The entry with index k has been captured and is in the table
Upserted(k) == k + 1 <= Len(central.upserted) /\ central.upserted[k + 1] # 0

\* The central entry of the entry with index k
CentralOf(k) == central.array[central.upserted[k + 1]]

\* C23: every entry that a DOWNLOAD entry created or updated has IN_DOWNLOAD
\* and an encoded size other than CASC_INVALID_SIZE, whatever five bytes the
\* DOWNLOAD entry carried.
C23_DownloadEntrySized ==
    \A k \in EntryIndexes :
        (Upserted(k) /\ (central.phase = "bits" => k < central.i)) =>
            /\ CASC_CE_IN_DOWNLOAD \in CentralOf(k).Flags
            /\ CentralOf(k).EncodedSize # CASC_INVALID_SIZE

\* C24: after the load of a file whose tags all have their complete bitmap,
\* for every entry whose EKey occurs once and every tag below 64, the tag's
\* bit in the entry's TagBitMask is set exactly when the tag's bitmap has the
\* bit of the entry.
C24_TagBitsFollowBitmaps ==
    (DownloadDone /\ central.file.cut = 0) =>
        \A k \in EntryIndexes :
            (EKeyOnce(k) /\ central.file.TagCount > 0) =>
                /\ Upserted(k)
                /\ \A tg \in 0..(central.file.TagCount - 1) :
                      tg < TagBitWidth =>
                          (tg \in CentralOf(k).TagBitMask <=> FileBit(tg, k))

\* C25: no entry has a tag bit at a place from min(64, TagCount) on, and a
\* bit is set only for a tag of that index that holds the entry: the tags
\* from 64 on set nothing.
C25_NoBitBeyondTags ==
    /\ \A n \in DOMAIN central.array :
          \A b \in central.array[n].TagBitMask :
              b < TagBitWidth /\ b < central.file.TagCount
    /\ \A k \in EntryIndexes :
          (EKeyOnce(k) /\ Upserted(k)) =>
              \A b \in CentralOf(k).TagBitMask : FileBit(b, k)

\* A file with more than 64 tags was loaded; tag 64 holds the entry 0, whose
\* mask has only the bit of tag 1
C25_Witness ==
    /\ DownloadDone
    /\ central.file.TagCount > TagBitWidth
    /\ FileBit(TagBitWidth, 0)
    /\ CentralOf(0).TagBitMask = {1}

\* C26: when the end of the file cuts the bitmap of the last tag short, the
\* load still succeeds with all the tags, the last tag keeps its name and
\* its value, its bitmap has the length of the bytes that remain, and an
\* entry has the tag's bit exactly when the bit lies in those bytes and is
\* set.
C26_CutBitmapKept ==
    (DownloadDone /\ central.file.cut > 0) =>
        LET last == central.file.TagCount
            remaining == Len(central.file.tags[last].Bitmap) - central.file.cut
        IN /\ central.dwErrCode = ERROR_SUCCESS
           /\ Len(central.TagsArray) = last
           /\ central.TagsArray[last].szTagName = central.file.tags[last].szTagName
           /\ central.TagsArray[last].TagValue =
                  ConvertBytesToInteger_2(central.file.tags[last].TagValue)
           /\ central.TagArray[last].BitmapLength = remaining
           /\ \A k \in EntryIndexes :
                 EKeyOnce(k) =>
                     /\ Upserted(k)
                     /\ (last - 1) \in CentralOf(k).TagBitMask
                           <=> ((k \div 8) < remaining /\ FileBit(last - 1, k))

\* C30: every entry of the file is captured and has its central entry with
\* IN_DOWNLOAD after the load, the last entry included.
C30_AllEntriesLoaded ==
    DownloadDone =>
        \A k \in EntryIndexes :
            /\ Upserted(k)
            /\ CentralOf(k).EKey.first9 = EKeyOfBytes(central.file.entries[k + 1].EKey).first9
            /\ CASC_CE_IN_DOWNLOAD \in CentralOf(k).Flags

\* The EKey of the entry was written by DOWNLOAD: the entry was created by
\* InsertCKeyEntry(hs, DlEntry), which gives it HAS_EKEY | IN_DOWNLOAD only
EKeyFromDownload(e) ==
    /\ CASC_CE_IN_DOWNLOAD \in e.Flags
    /\ CASC_CE_IN_ENCODING \notin e.Flags
    /\ CASC_CE_HAS_CKEY \notin e.Flags

\* C39: after the DOWNLOAD phase every central entry without
\* HAS_EKEY_PARTIAL holds all 16 bytes of its encoded key: an entry whose
\* EKey was written by DOWNLOAD is without the flag only when the header's
\* EKeyLength gave the entries 16 bytes of key
C39_FullKeyOrPartial ==
    DownloadDone =>
        \A i \in DOMAIN central.array :
            (EKeyFromDownload(central.array[i])
                /\ CASC_CE_HAS_EKEY_PARTIAL \notin central.array[i].Flags)
            => central.DlHeader.EKeyLength = MD5_HASH_SIZE

\* ------------------------------------------------------------------------
\* One CKey page of ENCODING, byte by byte.  "data" holds the page and the
\* bytes that follow it in the file; the page begins at 0 and pbEndOfPage is
\* PageSize.  A FILE_CKEY_ENTRY is EKeyCount (2 bytes), ContentSize (4),
\* CKey (16) and EKeyCount encoded keys of 16 bytes.

\* EnHeader.CKeyPageSize and the bytes of the file after the page
PageSize == 114
PageTail == 60

\* sizeof(FILE_CKEY_ENTRY): the part of a record that the load reads
SizeofFileCKeyEntry == 38

\* The bytes of a record with the key bytes c (CKey) and e (EKeys)
RecordBytes(count, c, e) ==
    <<count, 0>> \o <<0, 0, 0, 5>> \o [k \in 1..MD5_HASH_SIZE |-> c]
       \o [k \in 1..(count * MD5_HASH_SIZE) |-> e]

\* The records one after the other, then the filler up to the end of data
PageData(counts, filler) ==
    LET recs == Flatten([k \in DOMAIN counts |->
                            IF counts[k] = 0 THEN <<0, 0>>
                            ELSE RecordBytes(counts[k], k, 16 + k)])
    IN [k \in 1..(PageSize + PageTail) |-> IF k <= Len(recs) THEN recs[k] ELSE filler]

\* Pages of one to three records with 1 to 3 EKeys, some ended by a record
\* with EKeyCount == 0; the rest of the page is zero or is not
PageInputs ==
    { PageData(counts, filler) :
        counts \in {<<1>>, <<1, 1, 1>>, <<1, 0>>, <<2, 1>>, <<2, 2>>, <<1, 3>>,
                    <<3, 1>>, <<1, 1, 3>>, <<2, 1, 0>>, <<1, 1, 2>>},
        filler \in {0, 7} }

\* pFileEntry->EKeyCount, read in the byte order of the host
EKeyCountAt(data, pbFileEntry) == data[pbFileEntry + 1] + 256 * data[pbFileEntry + 2]

\* The FILE_CKEY_ENTRY at pbFileEntry as InsertCKeyEntry reads it
FileCKeyEntryAt(data, pbFileEntry) ==
    [EKeyCount |-> EKeyCountAt(data, pbFileEntry),
     ContentSize |-> SubSeq(data, pbFileEntry + 3, pbFileEntry + 6),
     CKey |-> SubSeq(data, pbFileEntry + 7, pbFileEntry + 22),
     EKey |-> EKeyOfBytes(SubSeq(data, pbFileEntry + 23, pbFileEntry + SizeofFileCKeyEntry))]

\* "Move to the next encoding entry"
NextFileEntry(pbFileEntry, EKeyCount) ==
    pbFileEntry + 2 + 4 + MD5_HASH_SIZE + (EKeyCount * MD5_HASH_SIZE)

InitPage ==
    /\ NoOpenRunning
    /\ \E policy \in {"first", "last"}, data \in PageInputs :
         central = [phase |-> "page", array |-> <<>>, CKeyMap |-> <<>>, EKeyMap |-> <<>>,
                    capacity |-> DlCapacity, policy |-> policy, data |-> data,
                    pbEndOfPage |-> PageSize, pbFileEntry |-> 0,
                    readEnd |-> 0, consumed |-> <<>>]
    /\ Unused(<<"peer", "info", "query", "parts">>)

\* LoadEncodingCKeyPage, one turn of the loop; readEnd is the end of the
\* last byte read so far
PageEntry ==
    /\ central.phase = "page"
    /\ central.pbFileEntry < central.pbEndOfPage
    /\ LET p == central.pbFileEntry
           count == EKeyCountAt(central.data, p)
       IN IF count = 0
          THEN central' = [central EXCEPT !.phase = "loaded",
                                          !.readEnd = IF p + 2 > @ THEN p + 2 ELSE @]
          ELSE LET tab == InsertCKeyEntry_Encoding(central,
                                                   FileCKeyEntryAt(central.data, p)).tab
               IN central' = [tab EXCEPT
                                !.pbFileEntry = NextFileEntry(p, count),
                                !.readEnd = p + SizeofFileCKeyEntry,
                                !.consumed = Append(@, [at |-> p, EKeyCount |-> count])]
    /\ Unchanged_Table

\* The loop ends at the end of the page
PageEnd ==
    /\ central.phase = "page"
    /\ central.pbFileEntry >= central.pbEndOfPage
    /\ central' = [central EXCEPT !.phase = "loaded"]
    /\ Unchanged_Table

NextPage ==
    \/ PageEntry
    \/ PageEnd

SpecPage == InitPage /\ [][NextPage]_vars

\* C31: the load of a page reads no byte at or after the end of the page,
\* consumes only records that lie inside the page with all their keys, and
\* goes from a record to the next by 6 + 16 + 16 * EKeyCount bytes.
C31_PageReadsInside ==
    /\ central.readEnd <= central.pbEndOfPage
    /\ \A n \in DOMAIN central.consumed :
          LET r == central.consumed[n]
              next == r.at + 6 + 16 + 16 * r.EKeyCount
          IN /\ next <= central.pbEndOfPage
             /\ IF n < Len(central.consumed)
                THEN central.consumed[n + 1].at = next
                ELSE central.phase = "page" => central.pbFileEntry = next

\* ------------------------------------------------------------------------
\* The capacity reserved for the central table and the entries loaded into it

CASC_MAX_EXTRA_ITEMS == 64

\* sizeof(FILE_DOWNLOAD_ENTRY): "Size of one entry in DOWNLOAD is at least
\* 22 bytes"
SizeofFileDownloadEntry == 22

\* "Assume there is max 1M of files"
AssumedNumberOfFiles == 1000000

CASCLIB_MAX(a, b) == IF a > b THEN a ELSE b

\* GetEstimatedNumberOfFiles, of the content sizes that the build file
\* states for DOWNLOAD and ENCODING
GetEstimatedNumberOfFiles(DownloadSize, EncodingSize) ==
    LET nNumberOfFiles1 ==
            IF DownloadSize # CASC_INVALID_SIZE
            THEN (DownloadSize \div SizeofFileDownloadEntry) + CASC_MAX_EXTRA_ITEMS ELSE 0
        nNumberOfFiles2 ==
            IF EncodingSize # CASC_INVALID_SIZE
            THEN (EncodingSize \div SizeofFileCKeyEntry) + CASC_MAX_EXTRA_ITEMS ELSE 0
    IN IF nNumberOfFiles1 # 0 \/ nNumberOfFiles2 # 0
       THEN CASCLIB_MAX(nNumberOfFiles1, nNumberOfFiles2)
       ELSE AssumedNumberOfFiles

\* Bytes of an ENCODING file with the given number of CKey pages of 1 KB and
\* no EKey page: the header, the page headers and the pages
EncodingFileSize(pages) == 22 + pages * (32 + 1024)

\* Bytes of a version 1 DOWNLOAD file without tags: the header and the
\* entries (EKey, 5 bytes of size, priority)
DownloadFileSize(EKeyLength, entries) == 11 + entries * (EKeyLength + 5 + 1)

\* A storage to load: the number of CKey pages and of records of ENCODING,
\* the EKey length and the number of entries of DOWNLOAD, how many of these
\* entries carry the EKey of a record of ENCODING, and which of the two
\* sizes the build file states
ReserveInput(pages, records, EKeyLength, entries, shared, encKnown, dlKnown) ==
    [pages |-> pages, records |-> records, EKeyLength |-> EKeyLength, entries |-> entries,
     shared |-> shared, encKnown |-> encKnown, dlKnown |-> dlKnown]

ReserveInputs ==
    { ReserveInput(1, 26, 16, 70, 0, TRUE, FALSE),
      ReserveInput(1, 26, 9, 120, 0, TRUE, TRUE),
      ReserveInput(1, 26, 16, 26, 26, TRUE, FALSE),
      ReserveInput(1, 3, 16, 5, 2, TRUE, TRUE),
      ReserveInput(1, 3, 9, 5, 0, FALSE, TRUE),
      ReserveInput(1, 3, 16, 5, 1, FALSE, FALSE) }

\* hs->EncodingCKey and hs->DownloadCKey as the build file gives them
ReserveEncodingCKey(in) ==
    CKeyEntry(9001, EKey(9001, 1), {CASC_CE_HAS_CKEY, CASC_CE_HAS_EKEY},
              IF in.encKnown THEN EncodingFileSize(in.pages) ELSE CASC_INVALID_SIZE,
              CASC_INVALID_SIZE)

ReserveDownloadCKey(in) ==
    CKeyEntry(9002, EKey(9002, 1), {CASC_CE_HAS_CKEY, CASC_CE_HAS_EKEY},
              IF in.dlKnown THEN DownloadFileSize(in.EKeyLength, in.entries)
              ELSE CASC_INVALID_SIZE,
              CASC_INVALID_SIZE)

\* Record k of ENCODING and entry k of DOWNLOAD; the first "shared" entries
\* of DOWNLOAD carry the EKeys of the records of ENCODING
ReserveRecord(k) == FileCKeyEntry(1000 + k, EKey(k, 1), 1)

ReserveEntry(in, k) ==
    [EKey |-> EKey(IF k <= in.shared THEN k ELSE 2000 + k,
                   IF in.EKeyLength > CASC_EKEY_SIZE THEN 1 ELSE 0),
     EncodedSize |-> ConvertBytesToInteger_5(<<0, 0, 0, 0, 7>>), Priority |-> 0]

InitReserve ==
    /\ NoOpenRunning
    /\ \E in \in ReserveInputs :
         central = [phase |-> "self", array |-> <<>>, CKeyMap |-> <<>>, EKeyMap |-> <<>>,
                    capacity |-> GetEstimatedNumberOfFiles(
                                     ReserveDownloadCKey(in).ContentSize,
                                     ReserveEncodingCKey(in).ContentSize),
                    policy |-> "first", input |-> in, k |-> 0, dropped |-> {}]
    /\ Unused(<<"peer", "info", "query", "parts">>)

\* The table of "central" replaced by the one an insertion returned; an
\* insertion that returned NULL is kept in "dropped"
Reserved(r, what, k) ==
    [central EXCEPT !.array = r.tab.array, !.CKeyMap = r.tab.CKeyMap,
                    !.EKeyMap = r.tab.EKeyMap,
                    !.dropped = IF r.pos = 0 THEN @ \cup {<<what, k>>} ELSE @]

\* LoadEncodingManifest: the entry for ENCODING itself
ReserveSelf ==
    /\ central.phase = "self"
    /\ central' = [Reserved(InsertCKeyEntry(central, ReserveEncodingCKey(central.input)),
                            "self", 0)
                     EXCEPT !.phase = "encoding", !.k = 1]
    /\ Unchanged_Table

\* LoadEncodingCKeyPage: one record
ReserveEncoding ==
    /\ central.phase = "encoding"
    /\ central.k <= central.input.records
    /\ central' = [Reserved(InsertCKeyEntry_Encoding(central, ReserveRecord(central.k)),
                            "encoding", central.k)
                     EXCEPT !.k = @ + 1]
    /\ Unchanged_Table

\* LoadEncodingManifest: CopyBuildFileItemsToCKeyArray after the last page
ReserveBuildItems ==
    /\ central.phase = "encoding"
    /\ central.k > central.input.records
    /\ central' = [Reserved(InsertCKeyEntry(central, ReserveDownloadCKey(central.input)),
                            "build", 0)
                     EXCEPT !.phase = "download", !.k = 1]
    /\ Unchanged_Table

\* LoadDownloadManifest: one entry
ReserveDownload ==
    /\ central.phase = "download"
    /\ central.k <= central.input.entries
    /\ central' = [Reserved(InsertCKeyEntry_Download(central,
                                                     ReserveEntry(central.input, central.k)),
                            "download", central.k)
                     EXCEPT !.k = @ + 1]
    /\ Unchanged_Table

ReserveDone ==
    /\ central.phase = "download"
    /\ central.k > central.input.entries
    /\ central' = [central EXCEPT !.phase = "done"]
    /\ Unchanged_Table

NextReserve == ReserveSelf \/ ReserveEncoding \/ ReserveBuildItems \/ ReserveDownload
                   \/ ReserveDone

SpecReserve == InitReserve /\ [][NextReserve]_vars

\* C32: during the load no insertion into the central array fails for lack
\* of capacity: every record of ENCODING and every entry of DOWNLOAD becomes
\* or updates a central entry, none is dropped
C32_NothingDropped == central.dropped = {}

\* ------------------------------------------------------------------------
\* Upserts: an item of the build file or an entry of DOWNLOAD meets a table
\* that may already hold its key

\* Upserts made at most
MaxUpserts == 2

\* The table before: an entry from ENCODING, with or without the data of
\* the index files (CopyEKeyEntry), and an entry known by a partial EKey
UpsertTables ==
    { <<[CKeyEntry(1, EKey(1, 1), {CASC_CE_HAS_CKEY, CASC_CE_HAS_EKEY, CASC_CE_IN_ENCODING},
                   csize, esize) EXCEPT !.StorageOffset = offset],
        [CKeyEntry(ZeroKey, EKey(2, 0), {CASC_CE_HAS_EKEY, CASC_CE_HAS_EKEY_PARTIAL},
                   CASC_INVALID_SIZE, esize2) EXCEPT !.StorageOffset = offset]>> :
        csize \in {CASC_INVALID_SIZE, 5}, esize \in {CASC_INVALID_SIZE, 9},
        esize2 \in {CASC_INVALID_SIZE, 9}, offset \in {CASC_INVALID_OFFS64, 4096} }

\* Items of the build file: the CKey of the first entry or a new one
UpsertBuildItems ==
    { CKeyEntry(ckey, EKey(ckey, 1), {CASC_CE_HAS_CKEY, CASC_CE_HAS_EKEY}, csize, esize) :
        ckey \in {1, 3}, csize \in {CASC_INVALID_SIZE, 6}, esize \in {CASC_INVALID_SIZE, 8} }

\* Entries of DOWNLOAD: the EKey of the first entry, the first 9 bytes of the
\* second or a new one; a size that fits 32 bits, one that does not and one
\* whose low 32 bits are all ones
UpsertDownloadEntries ==
    { [EKey |-> ekey, EncodedSize |-> ConvertBytesToInteger_5(size), Priority |-> 3] :
        ekey \in {EKey(1, 1), EKey(2, 7), EKey(4, 4)},
        size \in {<<0, 0, 0, 0, 7>>, <<1, 0, 0, 0, 7>>, <<0, 255, 255, 255, 255>>} }

InitUpsert ==
    /\ NoOpenRunning
    /\ \E array \in UpsertTables, policy \in {"first", "last"} :
         central = [phase |-> "upsert", array |-> array, CKeyMap |-> <<1>>,
                    EKeyMap |-> <<1, 2>>, capacity |-> Len(array) + MaxUpserts,
                    policy |-> policy, n |-> 0, last |-> None]
    /\ Unused(<<"peer", "info", "query", "parts">>)

\* What an upsert did: the entry found before it, the position returned,
\* the array before it and the sizes that came in
Upserted_(r, kind, found, csize, esize) ==
    [central EXCEPT !.array = r.tab.array, !.CKeyMap = r.tab.CKeyMap,
                    !.EKeyMap = r.tab.EKeyMap, !.n = @ + 1,
                    !.last = [kind |-> kind, found |-> found, pos |-> r.pos,
                              before |-> central.array, ContentSize |-> csize,
                              EncodedSize |-> esize]]

\* InsertCKeyEntry(hs, CASC_CKEY_ENTRY &)
UpsertBuildItem ==
    /\ central.phase = "upsert"
    /\ central.n < MaxUpserts
    /\ \E e \in UpsertBuildItems :
         central' = Upserted_(InsertCKeyEntry(central, e), "build",
                              FindCKeyEntry_CKey(central, e.CKey),
                              e.ContentSize, e.EncodedSize)
    /\ Unchanged_Table

\* InsertCKeyEntry(hs, CASC_DOWNLOAD_ENTRY &); DOWNLOAD states no content size
UpsertDownload ==
    /\ central.phase = "upsert"
    /\ central.n < MaxUpserts
    /\ \E dl \in UpsertDownloadEntries :
         central' = Upserted_(InsertCKeyEntry_Download(central, dl), "download",
                              FindCKeyEntry_EKey(central, dl.EKey),
                              CASC_INVALID_SIZE, DWORDOf(dl.EncodedSize))
    /\ Unchanged_Table

NextUpsert == UpsertBuildItem \/ UpsertDownload

SpecUpsert == InitUpsert /\ [][NextUpsert]_vars

\* The last operation met an entry that was in the table
UpsertHit == central.last # None /\ central.last.found # 0

\* C33: an upsert of an existing entry (item of the build file found by its
\* CKey, entry of DOWNLOAD found by the first 9 bytes of its EKey) keeps the
\* CKey and each of content size, encoded size and storage offset that was
\* known, puts the incoming size in place of an unknown content or encoded
\* size when the incoming size is known, and leaves the entry where it was:
\* the entry returned is the one found, and the array has the same length
\* and the same other entries
C33_UpsertKeepsKnown ==
    UpsertHit =>
        LET last == central.last
            old == last.before[last.found]
            new == central.array[last.found]
        IN /\ last.pos = last.found
           /\ Len(central.array) = Len(last.before)
           /\ \A i \in DOMAIN last.before : i # last.found => central.array[i] = last.before[i]
           /\ new.CKey = old.CKey
           /\ old.ContentSize # CASC_INVALID_SIZE => new.ContentSize = old.ContentSize
           /\ old.EncodedSize # CASC_INVALID_SIZE => new.EncodedSize = old.EncodedSize
           /\ old.StorageOffset # CASC_INVALID_OFFS64 => new.StorageOffset = old.StorageOffset
           /\ (old.ContentSize = CASC_INVALID_SIZE /\ last.ContentSize # CASC_INVALID_SIZE)
                  => new.ContentSize = last.ContentSize
           /\ (old.EncodedSize = CASC_INVALID_SIZE /\ last.EncodedSize # CASC_INVALID_SIZE)
                  => new.EncodedSize = last.EncodedSize

\* An entry of DOWNLOAD met an entry that had a storage offset and an encoded
\* size and gave it neither; before it, an item of the build file had given
\* the entry the content size it lacked
C33_Witness ==
    /\ UpsertHit
    /\ central.n = 2
    /\ LET last == central.last
           old == last.before[last.found]
           new == central.array[last.found]
       IN /\ last.kind = "download"
          /\ old.StorageOffset = 4096 /\ old.EncodedSize = 9 /\ old.ContentSize = 6
          /\ last.EncodedSize = 7
          /\ new.EncodedSize = 9 /\ new.StorageOffset = 4096 /\ new.ContentSize = 6
          /\ CASC_CE_IN_DOWNLOAD \in new.Flags

\* ------------------------------------------------------------------------
\* ParseOpenParams on a parameter string and args that the caller filled

\* Parameter strings: with and without cdn_url, code_name and region, with
\* empty fields
MergeStrings ==
    { <<>>, <<"a">>, <<"a", "*", "w">>, <<"a", "*", "w", "*", "u">>,
      <<"a", "*", "h", ".", "c">>, <<"a", "*", "h", ".", "c", "*", "w">>,
      <<"a", "*", "h", ":", "/", "/", "c", "*", "w", "*", "u">>,
      <<"*", "w">>, <<"a", "*", "*", "u">>, <<"a", "*", "w", "*">> }

\* A field of the caller's args: NULL, the empty string or a string
MergeArgValues == { NullPtr, CallerStr(<<>>), CallerStr(<<"x">>) }

InitMerge ==
    /\ NoOpenRunning
    /\ \E s \in MergeStrings, lp \in MergeArgValues, cu \in MergeArgValues,
          cn \in MergeArgValues, rg \in MergeArgValues :
         parts = [state |-> "input", szParams |-> s,
                  args0 |-> [szLocalPath |-> lp, szCdnHostUrl |-> cu, szCodeName |-> cn,
                             szRegion |-> rg, dwFlags |-> {}]]
    /\ Unused(<<"peer", "info", "query", "central">>)

\* ParseOpenParams(copy of the string, pArgs)
MergeParse ==
    /\ parts.state = "input"
    /\ LET r == ParseOpenParams(parts.szParams, parts.args0) IN
       parts' = [state |-> "parsed", szParams |-> parts.szParams, args0 |-> parts.args0,
                 err |-> r.err, buf |-> r.buf, args |-> r.args]
    /\ UNCHANGED <<pc, szParams, pArgs, bOnlineStorage, szParamsCopy, dwErrCode, lastError,
                   phStorage, retval, hs, storage, heap, socketsCaching, trace, callbacks,
                   BuildFile, root, ub, owned, peer, info, query, central>>

NextMerge == MergeParse

SpecMerge == InitMerge /\ [][NextMerge]_vars

\* The fields of a string between its separators
RECURSIVE SplitFields(_, _)
SplitFields(s, field) ==
    IF s = <<>> THEN <<field>>
    ELSE IF s[1] = CASC_PARAM_SEPARATOR THEN <<field>> \o SplitFields(Tail(s), <<>>)
    ELSE SplitFields(Tail(s), Append(field, s[1]))

\* The fields joined with separators again
RECURSIVE JoinFields(_)
JoinFields(fields) ==
    IF Len(fields) = 1 THEN fields[1]
    ELSE fields[1] \o <<CASC_PARAM_SEPARATOR>> \o JoinFields(Tail(fields))

\* What a parameter string supplies, by its format
\* "local_path[*cdn_url]*code_name*region": the first field is the
\* local_path, the second is the cdn_url when it has '.' or '/', the next is
\* the code_name and all that follows is the region.  A field that the
\* string does not supply is absent from the function.
SuppliedBy(s) ==
    LET fields == SplitFields(s, <<>>)
        url == Len(fields) >= 2 /\ HasUrlMark(fields[2])
        rest == SubSeq(fields, IF url THEN 3 ELSE 2, Len(fields))
    IN [f \in {"szLocalPath"} \cup (IF url THEN {"szCdnHostUrl"} ELSE {})
              \cup (IF Len(rest) >= 1 THEN {"szCodeName"} ELSE {})
              \cup (IF Len(rest) >= 2 THEN {"szRegion"} ELSE {}) |->
          CASE f = "szLocalPath"  -> fields[1]
            [] f = "szCdnHostUrl" -> fields[2]
            [] f = "szCodeName"   -> rest[1]
            [] f = "szRegion"     -> JoinFields(Tail(rest))]

ArgFields == {"szLocalPath", "szCdnHostUrl", "szCodeName", "szRegion"}

\* The fields that the caller's args hold non-empty
GivenBy(args) == {f \in ArgFields : args[f].kind = "caller" /\ args[f].s # <<>>}

\* C34: ParseOpenParams rejects every double specification: when a field
\* is non-empty in the caller's args and is also supplied by the parameter
\* string the result is ERROR_INVALID_PARAMETER; when no field is supplied
\* twice the result is ERROR_SUCCESS and each field holds the value of the
\* source that supplied it
C34_DoubleSpecificationRejected ==
    parts.state = "parsed" =>
        LET supplied == SuppliedBy(parts.szParams)
            given == GivenBy(parts.args0)
        IN IF given \cap DOMAIN supplied # {}
           THEN parts.err = ERROR_INVALID_PARAMETER
           ELSE /\ parts.err = ERROR_SUCCESS
                /\ \A f \in DOMAIN supplied :
                     /\ parts.args[f] # NullPtr
                     /\ ArgStr(parts.args[f], parts.buf) = supplied[f]
                /\ \A f \in given : parts.args[f] = parts.args0[f]

\* The string supplied local_path, cdn_url, code_name and region, the args
\* held a region as well, and the call was rejected at the region
C34_Witness ==
    /\ parts.state = "parsed"
    /\ DOMAIN SuppliedBy(parts.szParams) = ArgFields
    /\ GivenBy(parts.args0) = {"szRegion"}
    /\ parts.err = ERROR_INVALID_PARAMETER

\* ------------------------------------------------------------------------
\* The path-product string of a storage given back to ParseOpenParams

RoundPaths   == { <<"a">>, <<"a", "/", "b">>, <<"c", ":", "/", "g">> }
RoundCodes   == { NullStr, S(<<>>), S(<<"w">>), S(<<"w", "t">>) }
RoundRegions == { NullStr, S(<<>>), S(<<"u", "s">>), S(<<"e", ".", "u">>) }

InitRound ==
    /\ NoOpenRunning
    /\ \E P \in RoundPaths, C \in RoundCodes, R \in RoundRegions :
         parts = [state |-> "storage",
                  st |-> [InfoOf(<<>>, <<>>, C, R) EXCEPT !.szRootPath = P]]
    /\ Unused(<<"peer", "info", "query", "central">>)

Unchanged_Round ==
    UNCHANGED <<pc, szParams, pArgs, bOnlineStorage, szParamsCopy, dwErrCode, lastError,
                phStorage, retval, hs, storage, heap, socketsCaching, trace, callbacks,
                BuildFile, root, ub, owned, peer, info, query, central>>

\* CascGetStorageInfo(hs, CascStoragePathProduct, ..): with no buffer to
\* learn the length, or with a buffer of MaxBuffer bytes
RoundQuery ==
    /\ parts.state = "storage"
    /\ \E cb \in {0, MaxBuffer} :
         LET res == GetStoragePathProduct(parts.st, cb, TRUE) IN
         parts' = [state |-> IF res.ret THEN "string" ELSE "refused",
                   st |-> parts.st, res |-> res]
    /\ Unchanged_Round

\* ParseOpenParams(copy of the string, &LocalArgs)
RoundParse ==
    /\ parts.state = "string"
    /\ LET r == ParseOpenParams(parts.res.buffer.value, EmptyArgs) IN
       parts' = [state |-> "parsed", st |-> parts.st, res |-> parts.res,
                 err |-> r.err, buf |-> r.buf, args |-> r.args]
    /\ Unchanged_Round

NextRound == RoundQuery \/ RoundParse

SpecRound == InitRound /\ [][NextRound]_vars

\* The field of the parsed args is the string of the storage, unset when the
\* storage has none
ParsedField(ptr, str) ==
    IF str.null THEN ptr = NullPtr
    ELSE ptr # NullPtr /\ ArgStr(ptr, parts.buf) = str.s

\* C38: round trip of the path-product query: the string that
\* GetStoragePathProduct produces for a storage with root path P, optional
\* code name C and optional region R is parsed by ParseOpenParams with empty
\* args to local_path = P, code_name = C and region = R, also when C is
\* absent and R is present
C38_PathProductRoundTrip ==
    parts.state = "parsed" =>
        /\ parts.err = ERROR_SUCCESS
        /\ ArgStr(parts.args.szLocalPath, parts.buf) = parts.st.szRootPath
        /\ ParsedField(parts.args.szCodeName, parts.st.szCodeName)
        /\ ParsedField(parts.args.szRegion, parts.st.szRegion)

====
